---- MODULE Spec2Model ----
(***************************************************************************)
(* Model of src/ai_assistant.py: the AIAssistant component operations      *)
(* (ask_question, enrich_task_descriptions, get_upcoming_tasks,            *)
(* get_task_status, bulk_assign_tasks) and the external services they      *)
(* call (inference provider, task-tracking service).                       *)
(*                                                                         *)
(* Strings are modelled by what the code reads of them:                    *)
(*   - task and user names, questions and answers are sequences of         *)
(*     symbols (substring tests, case folding and trimming are computed    *)
(*     on the sequences);                                                  *)
(*   - task notes are records [len, marker, blocks]: the length in         *)
(*     characters, whether the text contains "TASK DESCRIPTION", and the   *)
(*     number of generated description blocks in it.                       *)
(* Percentages (floats with one decimal) are integers in tenths of a       *)
(* percent: 40.0 is 400.                                                   *)
(***************************************************************************)
EXTENDS Integers, Sequences, FiniteSets, TLC

\* Optional values: Python's None is the empty tuple, a value v is <<v>>.
NoneVal == <<>>
Some(v) == <<v>>

\* ------------------------------------------------------------------ bounds
\* Longest task list of the tracking service in the enrichment runs.
MaxTasks == 2

\* --------------------------------------------------------- program constants
\* len(existing_notes) > 200
SkipThreshold == 200
\* Characters of the formatted_description template outside its four fields.
TemplateLen == 85
\* datetime.now().strftime('%Y-%m-%d')
DateLen == 10
\* ASSISTANT_NAME, default "AI Assistant"
AssistantNameLen == 12

\* ------------------------------------------------------------ string helpers
\* Sequences of symbols; "PHASE " is one symbol of six characters.
RECURSIVE CharLen(_)
CharLen(s) ==
    IF s = <<>> THEN 0
    ELSE (IF Head(s) = "PHASE " THEN 6 ELSE 1) + CharLen(Tail(s))

\* sub in s (Python's substring test)
Contains(s, sub) ==
    \E i \in 0..(Len(s) - Len(sub)) :
        \A j \in 1..Len(sub) : s[i + j] = sub[j]

\* sum(1 for x in s if Test(x))
Count(s, Test(_)) == Cardinality({i \in 1..Len(s) : Test(s[i])})

\* Python truthiness of an optional integer: `if limit:`
Truthy(v) == v # NoneVal /\ v[1] # 0

\* s[:n] for n >= 0
Prefix(s, n) == SubSeq(s, 1, IF n < Len(s) THEN n ELSE Len(s))

\* ------------------------------------------------------------------- state
VARIABLES
    tasks,      \* the tracking service's project: a sequence of task records
    calls,      \* history: the external calls issued, in order
    ePc,        \* per batch: "idle", "loop", "done"
    eLimit,     \* per batch: the limit argument
    eFetched,   \* per batch: whether the task fetch succeeded
    eTodo,      \* per batch: tasks_to_process (the fetched snapshot)
    eIdx,       \* per batch: position of the loop in tasks_to_process
    eResults,   \* per batch: the results counters
    eTrace,     \* per batch, history: what happened to each visited task
    eRet,       \* per batch: the value returned to the caller
    askPc,      \* ask_question: "idle", "sent", "returned", "raised"
    askN,       \* ask_question: calls made so far
    askQ,       \* ask_question: the question of the last call
    askResp,    \* ask_question: the provider's answer to the last request
    askRet,     \* ask_question: the value returned to the caller
    users,      \* the tracking service's users: a sequence of [gid, name]
    bulkPc,     \* bulk_assign_tasks: "idle", "loop", "returned", "raised"
    bulkTasks,  \* bulk_assign_tasks: the tasks argument
    bulkAssignee, \* bulk_assign_tasks: the assignee argument
    bulkDue,    \* bulk_assign_tasks: the due_on argument
    bulkGid,    \* bulk_assign_tasks: assignee_gid
    bulkIdx,    \* bulk_assign_tasks: position of the loop in tasks
    bulkTaskId, \* bulk_assign_tasks: the local task_id (None: not bound yet)
    bulkResults, \* bulk_assign_tasks: the results dictionary
    bulkCalls,  \* bulk_assign_tasks, history: the external calls issued
    bulkError,  \* bulk_assign_tasks: the exception that left the function
    bulkRet,    \* bulk_assign_tasks: the value returned to the caller
    phaseKeys,  \* the keys of IMPLEMENTATION_PHASES, in the mapping's order
    statusPc,   \* get_task_status: "idle", "returned", "raised"
    statusRet,  \* get_task_status: the value returned to the caller
    upcomingPc, \* get_upcoming_tasks: "idle", "returned", "raised"
    upcomingRet, \* get_upcoming_tasks: the list returned to the caller
    pathTxt, \* Path.txt: its text, or None when it cannot be read
    headings, \* history: the headings Path.txt was written from
    DOMAIN_KNOWLEDGE, \* the knowledge blob
    parsePc, \* module start-up: "start", "loaded", "found", "none"
    IMPLEMENTATION_PHASES, \* the phase mapping: [key, value] entries in insertion order
    conversation_history, \* the conversation log: key -> the list object stored under it
    listObjs, \* the heap: the list objects created, each a sequence of entries
    hPc, \* per chat handler: its position
    hUser, \* per chat handler: the user who asked
    hKind, \* per chat handler: "command" (/assistant ask) or "mention"
    hResp, \* per chat handler: response, None when ask_question failed
    hRef, \* per chat handler: the list object it has looked up
    env, \* the environment after load_dotenv: name -> value, None when unset
    cfgIdx, \* start-up: position in the sequence of configuration checks
    startPc, \* start-up: "check", "exited", "init_clients", "ready", "serving"
    diagnostics, \* start-up: the names the printed warnings are about, in order
    clients, \* start-up: the clients initialised
    served, \* whether a chat command has been served
    cmdPc, \* chat 'enrich' handler: "idle", "said", "started", "returned"
    cmdContent, \* chat 'enrich' handler: the text after the subcommand
    cmdChannel, \* chat 'enrich' handler: command['channel_id']
    wPc, \* worker thread: "none", "enrich", "post", "except", "ended", "died"
    postCalls, \* history: the chat_postMessage calls of the worker thread
    stdin, \* lines typed on standard input and not yet read: [text, reader meant]
    typed, \* the operator commands typed so far, in order
    pollPc, \* position of the process_commands thread
    cmd, \* the line process_commands has read and not yet queued
    command_queue, \* command_queue: the queued [text, reader meant] lines
    mainPc, \* position of the main loop
    executed, \* the commands the main loop has dispatched, in order
    consumed, \* every line read so far: [text, meant, by]
    mainCalls \* the calls the main loop has made, with their arguments

trackerVars == <<tasks, calls>>
enrichVars == <<ePc, eLimit, eFetched, eTodo, eIdx, eResults, eTrace, eRet>>
askVars == <<askPc, askN, askQ, askResp, askRet>>
bulkArgs == <<users, bulkTasks, bulkAssignee, bulkDue>>
bulkVars == <<bulkArgs, bulkPc, bulkGid, bulkIdx, bulkTaskId, bulkResults,
              bulkCalls, bulkError, bulkRet>>
queryVars == <<phaseKeys, statusPc, statusRet, upcomingPc, upcomingRet>>
parseVars == <<pathTxt, headings, DOMAIN_KNOWLEDGE, parsePc, IMPLEMENTATION_PHASES>>
chatVars == <<conversation_history, listObjs, hPc, hUser, hKind, hResp, hRef>>
startVars == <<env, cfgIdx, startPc, diagnostics, clients, served>>
workerVars == <<cmdPc, cmdContent, cmdChannel, wPc, postCalls>>
serviceVars == <<stdin, typed, pollPc, cmd, command_queue, mainPc, executed, consumed, mainCalls>>
vars ==
    <<trackerVars, enrichVars, askVars, bulkVars,
      queryVars, parseVars, chatVars, startVars,
      workerVars, serviceVars>>

\* What the actions of one operation leave alone.
notEnrich ==
    <<askVars, bulkVars, queryVars, parseVars,
      chatVars, startVars, workerVars, serviceVars>>
notAsk ==
    <<enrichVars, bulkVars, queryVars, parseVars,
      chatVars, startVars, workerVars, serviceVars>>
notBulk ==
    <<enrichVars, askVars, queryVars, parseVars,
      chatVars, startVars, workerVars, serviceVars>>
notQuery ==
    <<enrichVars, askVars, bulkVars, parseVars,
      chatVars, startVars, workerVars, serviceVars>>
notParse ==
    <<enrichVars, askVars, bulkVars, queryVars,
      chatVars, startVars, workerVars, serviceVars>>
notChat ==
    <<enrichVars, askVars, bulkVars, queryVars,
      parseVars, startVars, workerVars, serviceVars>>
notStart ==
    <<enrichVars, askVars, bulkVars, queryVars,
      parseVars, chatVars, workerVars, serviceVars>>
notWorker ==
    <<enrichVars, askVars, bulkVars, queryVars,
      parseVars, chatVars, startVars, serviceVars>>
notService ==
    <<enrichVars, askVars, bulkVars, queryVars,
      parseVars, chatVars, startVars, workerVars>>

\* Two enrichment batches can exist at a time (a chat worker thread and the
\* operator's command).
Batches == {"b1", "b2"}

\* No status or upcoming-tasks query has been made; no phase is known.
QueryIdle ==
    /\ phaseKeys = <<>>
    /\ statusPc = "idle"
    /\ statusRet = NoneVal
    /\ upcomingPc = "idle"
    /\ upcomingRet = <<>>

\* results = {'success': 0, 'failed': 0, 'tasks': []}
ZeroBulk == [success |-> 0, failed |-> 0, tasks |-> <<>>]

\* bulk_assign_tasks has not been called; there are no users.
BulkIdle ==
    /\ users = <<>>
    /\ bulkTasks = <<>>
    /\ bulkAssignee = <<>>
    /\ bulkDue = NoneVal
    /\ bulkPc = "idle"
    /\ bulkGid = NoneVal
    /\ bulkIdx = 1
    /\ bulkTaskId = NoneVal
    /\ bulkResults = ZeroBulk
    /\ bulkCalls = <<>>
    /\ bulkError = "none"
    /\ bulkRet = NoneVal

\* The knowledge file has not been read; no phase is known.
ParseIdle ==
    /\ pathTxt = NoneVal
    /\ headings = <<>>
    /\ DOMAIN_KNOWLEDGE = <<>>
    /\ parsePc = "start"
    /\ IMPLEMENTATION_PHASES = <<>>

\* No question has been handled: conversation_history = {}
ChatIdle ==
    /\ conversation_history = <<>>
    /\ listObjs = <<>>
    /\ hPc = <<>>
    /\ hUser = <<>>
    /\ hKind = <<>>
    /\ hResp = <<>>
    /\ hRef = <<>>

\* The configuration has not been read.
StartIdle ==
    /\ env = <<>>
    /\ cfgIdx = 1
    /\ startPc = "check"
    /\ diagnostics = <<>>
    /\ clients = {}
    /\ served = FALSE

\* No chat 'enrich' command has been received.
WorkerIdle ==
    /\ cmdPc = "idle"
    /\ cmdContent = <<>>
    /\ cmdChannel = "none"
    /\ wPc = "none"
    /\ postCalls = <<>>

\* The service loop before any line is typed (src/ai_assistant.py:831-852).
ServiceIdle ==
    /\ stdin = <<>>
    /\ typed = <<>>
    /\ pollPc = "input"
    /\ cmd = <<>>
    /\ command_queue = <<>>
    /\ mainPc = "get"
    /\ executed = <<>>
    /\ consumed = <<>>
    /\ mainCalls = <<>>

\* results = {'processed': 0, 'updated': 0, 'skipped': 0, 'failed': 0}
ZeroResults == [processed |-> 0, updated |-> 0, skipped |-> 0, failed |-> 0]

\* No enrichment batch has started.
EnrichIdle ==
    /\ ePc = [b \in Batches |-> "idle"]
    /\ eLimit = [b \in Batches |-> NoneVal]
    /\ eFetched = [b \in Batches |-> FALSE]
    /\ eTodo = [b \in Batches |-> <<>>]
    /\ eIdx = [b \in Batches |-> 1]
    /\ eResults = [b \in Batches |-> ZeroResults]
    /\ eTrace = [b \in Batches |-> <<>>]
    /\ eRet = [b \in Batches |-> NoneVal]

\* ----------------------------------------------------- task-tracking service
Notes(l, m) == [len |-> l, marker |-> m, blocks |-> IF m THEN 1 ELSE 0]
\* notes that are None (no text at all): len() of them raises
NoneNotes == [len |-> -1, marker |-> FALSE, blocks |-> 0]
IsNoneNotes(nt) == nt.len < 0

Task(g, n, c, nt, d, a) ==
    [gid |-> g, name |-> n, completed |-> c, notes |-> nt, due_on |-> d,
     assignee |-> a]

\* tasks.update_task(task_id, {'notes': updated_notes}) when it succeeds
PatchNotes(ts, gid, nt) ==
    [i \in DOMAIN ts |-> IF ts[i].gid = gid THEN [ts[i] EXCEPT !.notes = nt]
                         ELSE ts[i]]

\* ------------------------------------------------------------ ask_question
\* Longest answer text of the inference provider, in symbols.
MaxTextLen == 3
\* Calls of ask_question in one run.
MaxAsks == 2

Whitespace == {" "}
TextSymbols == {" ", "a"}
Texts == UNION {[1..n -> TextSymbols] : n \in 0..MaxTextLen}
\* The questions: free text, non-empty.
Questions == {<<"a">>, <<"a", "a">>, <<"a", " ", "a">>}

RECURSIVE LStrip(_)
LStrip(s) ==
    IF s # <<>> /\ Head(s) \in Whitespace THEN LStrip(Tail(s)) ELSE s

RECURSIVE RStrip(_)
RStrip(s) ==
    IF s # <<>> /\ s[Len(s)] \in Whitespace
    THEN RStrip(SubSeq(s, 1, Len(s) - 1)) ELSE s

\* A bug: only the leading whitespace is removed.
M_Strip(s) == LStrip(s)

\* str.strip()
Strip(s) == RStrip(LStrip(s))

\* What requests.post ends with: a response with a status and a body, or a
\* transport exception. A 200 body is well formed when it holds
\* choices[0].message.content.
Response(st, wf, tx) == [exc |-> FALSE, status |-> st, wellformed |-> wf, text |-> tx]
TransportError == [exc |-> TRUE, status |-> 0, wellformed |-> FALSE, text |-> <<>>]
NoResponse == [exc |-> FALSE, status |-> 0, wellformed |-> FALSE, text |-> <<>>]

AskIdle ==
    /\ askPc = "idle"
    /\ askN = 0
    /\ askQ = <<>>
    /\ askResp = NoResponse
    /\ askRet = NoneVal

AskCall == [op |-> "infer", by |-> "ask", gid |-> 0, ok |-> TRUE]

\* The caller calls ask_question: the prompt is built and posted.
AskStart ==
    /\ askPc \in {"idle", "returned"}
    /\ askN < MaxAsks
    /\ askPc' = "sent"
    /\ askN' = askN + 1
    /\ \E q \in Questions : askQ' = q
    /\ askResp' = NoResponse
    /\ askRet' = NoneVal
    /\ calls' = Append(calls, AskCall)
    /\ UNCHANGED <<tasks, notAsk>>

\* The function ends with `ret` for the answer `resp`.
AskEnd(resp, ret) ==
    /\ askPc' = "returned"
    /\ askResp' = resp
    /\ askRet' = ret
    /\ UNCHANGED <<askN, askQ, trackerVars, notAsk>>

\* A bug: the provider is asked again after a failure.
M_AskFailed(resp) ==
    /\ askPc' = "sent"
    /\ askResp' = resp
    /\ calls' = Append(calls, AskCall)
    /\ UNCHANGED <<askN, askQ, askRet, tasks, notAsk>>

\* return None (the else branch, and the except handler)
AskFailed(resp) == AskEnd(resp, NoneVal)

\* status 200: return response_data[...]['content'].strip()
AskOk ==
    /\ askPc = "sent"
    /\ \E tx \in Texts : AskEnd(Response(200, TRUE, tx), Some(Strip(tx)))

\* a non-200 status: the error is printed, return None
AskHttpFail ==
    /\ askPc = "sent"
    /\ \E st \in {401, 429, 500, 503} : AskFailed(Response(st, FALSE, <<>>))

\* requests.post raises, or the 200 body is not the expected JSON: the
\* except handler returns None
AskException ==
    /\ askPc = "sent"
    /\ \E resp \in {TransportError, Response(200, FALSE, <<>>)} : AskFailed(resp)

InitAsk ==
    /\ tasks = <<>>
    /\ calls = <<>>
    /\ EnrichIdle
    /\ AskIdle
    /\ BulkIdle
    /\ QueryIdle
    /\ ParseIdle
    /\ ChatIdle
    /\ StartIdle
    /\ WorkerIdle
    /\ ServiceIdle

NextAsk == AskStart \/ AskOk \/ AskHttpFail \/ AskException

SpecAsk == InitAsk /\ [][NextAsk]_vars

\* r is tx without its leading and trailing whitespace.
IsTrimOf(r, tx) ==
    /\ (r # <<>> => r[1] \notin Whitespace /\ r[Len(r)] \notin Whitespace)
    /\ \E i \in 0..Len(tx) :
          /\ i + Len(r) <= Len(tx)
          /\ \A j \in 1..Len(tx) :
                IF j > i /\ j <= i + Len(r) THEN tx[j] = r[j - i]
                ELSE tx[j] \in Whitespace

AskRequests == Cardinality({i \in 1..Len(calls) : calls[i] = AskCall})

\* C5: ask_question sends exactly one request per call (no retry); on a
\* non-200 answer or an exception it returns None and raises nothing; on a
\* 200 answer (a body holding the content) it returns the text without its
\* leading and trailing whitespace.
C5_AskOnceNoRaise ==
    /\ askPc # "raised"
    /\ AskRequests = askN
    /\ askPc = "returned" =>
          IF ~askResp.exc /\ askResp.status = 200 /\ askResp.wellformed
          THEN /\ askRet # NoneVal
               /\ IsTrimOf(askRet[1], askResp.text)
          ELSE askRet = NoneVal

\* A second call, answered 429, has returned None.
C5_Witness ==
    /\ askPc = "returned"
    /\ askN = 2
    /\ askResp.status = 429
    /\ askRet = NoneVal

\* A call answered 200 with whitespace on both sides of the text.
C5_WitnessTrim ==
    /\ askPc = "returned"
    /\ askResp.text = <<" ", "a", " ">>
    /\ askRet = Some(<<"a">>)

\* ------------------------------------------------ enrich_task_descriptions
\* Lengths of the description the inference provider generates (trimmed).
DescLens == {0, 100}
\* Non-200 answers of the inference provider.
HttpFailStatuses == {401, 429, 500}

\* incomplete_tasks = [task for task in tasks if not task.get('completed', False)]
Incomplete(ts) == SelectSeq(ts, LAMBDA t : ~t.completed)

\* if limit: incomplete_tasks[:limit] else: incomplete_tasks
TasksToProcess(incomplete, limit) ==
    IF Truthy(limit) THEN Prefix(incomplete, limit[1]) ELSE incomplete

\* len(existing_notes) > 200 and "TASK DESCRIPTION" in existing_notes
M_ShouldSkip(nt) == nt.len > SkipThreshold + 1 /\ nt.marker
ShouldSkip(nt) == nt.len > SkipThreshold /\ nt.marker

\* len(formatted_description)
FormattedLen(dlen, name) ==
    TemplateLen + AssistantNameLen + DateLen + dlen + CharLen(name)

\* formatted_description if not existing_notes
\* else f"{existing_notes}\n\n{formatted_description}"
UpdatedNotes(existing, flen) ==
    IF existing.len = 0
    THEN [len |-> flen, marker |-> TRUE, blocks |-> 1]
    ELSE [len |-> existing.len + 2 + flen, marker |-> TRUE,
          blocks |-> existing.blocks + 1]

CurTask(b) == eTodo[b][eIdx[b]]

InLoop(b) == ePc[b] = "loop" /\ eIdx[b] <= Len(eTodo[b])

\* One iteration of the loop ends: the counters are `res`, the loop moves on.
Visit(b, kind, res) ==
    /\ eTrace' = [eTrace EXCEPT ![b] =
                    Append(@, [gid |-> CurTask(b).gid, kind |-> kind])]
    /\ eResults' = [eResults EXCEPT ![b] = res]
    /\ eIdx' = [eIdx EXCEPT ![b] = @ + 1]
    /\ UNCHANGED <<ePc, eLimit, eFetched, eTodo, eRet>>

\* A bug: the exception leaves the loop and reaches the outer handler.
M_OnTaskException(b) ==
    /\ ePc' = [ePc EXCEPT ![b] = "done"]
    /\ eRet' = [eRet EXCEPT ![b] = NoneVal]
    /\ UNCHANGED <<eLimit, eFetched, eTodo, eIdx, eResults, eTrace>>

\* A bug: 'processed' is counted in a finally clause, for a task that raised
\* as well.
M_OnTaskExceptionProcessed(b) ==
    Visit(b, "exception",
          [eResults[b] EXCEPT !.failed = @ + 1, !.processed = @ + 1])

\* except Exception as e: results['failed'] += 1   (inside the loop)
OnTaskException(b) ==
    Visit(b, "exception", [eResults[b] EXCEPT !.failed = @ + 1])

InferCall(b) == [op |-> "infer", by |-> b, gid |-> CurTask(b).gid, ok |-> TRUE]
PatchCall(b, ok) == [op |-> "patch", by |-> b, gid |-> CurTask(b).gid, ok |-> ok]
FetchCall(b, ok) == [op |-> "fetch", by |-> b, gid |-> 0, ok |-> ok]

\* The limit arguments: unset, or an integer >= 0.
Limits == {NoneVal} \cup {Some(n) : n \in 0..MaxTasks}

\* The task fetch succeeds; the incomplete tasks are selected.
EnrichStart(b) ==
    /\ ePc[b] = "idle"
    /\ \E limit \in Limits :
         /\ eLimit' = [eLimit EXCEPT ![b] = limit]
         /\ eTodo' = [eTodo EXCEPT ![b] = TasksToProcess(Incomplete(tasks), limit)]
    /\ ePc' = [ePc EXCEPT ![b] = "loop"]
    /\ eFetched' = [eFetched EXCEPT ![b] = TRUE]
    /\ eIdx' = [eIdx EXCEPT ![b] = 1]
    /\ eResults' = [eResults EXCEPT ![b] = ZeroResults]
    /\ calls' = Append(calls, FetchCall(b, TRUE))
    /\ UNCHANGED <<tasks, eTrace, eRet, notEnrich>>

\* The task fetch raises: the outer handler logs it and the function ends.
EnrichFetchFail(b) ==
    /\ ePc[b] = "idle"
    /\ \E limit \in Limits :
         eLimit' = [eLimit EXCEPT ![b] = limit]
    /\ ePc' = [ePc EXCEPT ![b] = "done"]
    /\ eRet' = [eRet EXCEPT ![b] = NoneVal]
    /\ calls' = Append(calls, FetchCall(b, FALSE))
    /\ UNCHANGED <<tasks, eFetched, eTodo, eIdx, eResults, eTrace, notEnrich>>

\* len(existing_notes) raises on notes that are None.
EnrichNotesError(b) ==
    /\ InLoop(b)
    /\ IsNoneNotes(CurTask(b).notes)
    /\ OnTaskException(b)
    /\ UNCHANGED <<trackerVars, notEnrich>>

\* Skip if already has substantial notes.
EnrichSkip(b) ==
    /\ InLoop(b)
    /\ ~IsNoneNotes(CurTask(b).notes)
    /\ ShouldSkip(CurTask(b).notes)
    /\ Visit(b, "skipped", [eResults[b] EXCEPT !.skipped = @ + 1])
    /\ UNCHANGED <<trackerVars, notEnrich>>

NeedsDescription(b) ==
    /\ InLoop(b)
    /\ ~IsNoneNotes(CurTask(b).notes)
    /\ ~ShouldSkip(CurTask(b).notes)

\* requests.post raises, or the 200 body lacks choices[0].message.content.
EnrichRequestException(b) ==
    /\ NeedsDescription(b)
    /\ calls' = Append(calls, InferCall(b))
    /\ OnTaskException(b)
    /\ UNCHANGED <<tasks, notEnrich>>

\* The provider answers with a non-200 status.
EnrichHttpFail(b) ==
    /\ NeedsDescription(b)
    /\ \E status \in HttpFailStatuses :
         /\ calls' = Append(calls, InferCall(b))
         /\ Visit(b, "http_fail",
                  [eResults[b] EXCEPT !.failed = @ + 1, !.processed = @ + 1])
    /\ UNCHANGED <<tasks, notEnrich>>

\* The provider answers 200 and the patch call raises.
EnrichPatchFail(b) ==
    /\ NeedsDescription(b)
    /\ calls' = calls \o <<InferCall(b), PatchCall(b, FALSE)>>
    /\ OnTaskException(b)
    /\ UNCHANGED <<tasks, notEnrich>>

\* The provider answers 200 and the notes are patched.
EnrichUpdate(b) ==
    /\ NeedsDescription(b)
    /\ \E dlen \in DescLens :
         tasks' = PatchNotes(tasks, CurTask(b).gid,
                    UpdatedNotes(CurTask(b).notes,
                                 FormattedLen(dlen, CurTask(b).name)))
    /\ calls' = calls \o <<InferCall(b), PatchCall(b, TRUE)>>
    /\ Visit(b, "updated",
             [eResults[b] EXCEPT !.updated = @ + 1, !.processed = @ + 1])
    /\ UNCHANGED notEnrich

\* The loop is over: the summary is printed; the function has no return
\* statement.
EnrichFinish(b) ==
    /\ ePc[b] = "loop"
    /\ eIdx[b] > Len(eTodo[b])
    /\ ePc' = [ePc EXCEPT ![b] = "done"]
    /\ eRet' = [eRet EXCEPT ![b] = NoneVal]
    /\ UNCHANGED <<trackerVars, eLimit, eFetched, eTodo, eIdx, eResults, eTrace>>
    /\ UNCHANGED notEnrich

\* The projects the enrichment runs start from: every list of at most
\* MaxTasks tasks, each completed or not, with notes of every kind around
\* the skip threshold.
EnrichNotes ==
    {NoneNotes} \cup {Notes(l, m) : l \in {SkipThreshold, SkipThreshold + 1},
                                  m \in BOOLEAN}
              \cup {Notes(0, FALSE)}

EnrichProjects ==
    UNION {{[i \in 1..n |-> Task(i, <<"x">>, k[i].completed, k[i].notes,
                                 NoneVal, NoneVal)] :
            k \in [1..n -> [completed : BOOLEAN, notes : EnrichNotes]]} :
           n \in 0..MaxTasks}

InitEnrich ==
    /\ tasks \in EnrichProjects
    /\ calls = <<>>
    /\ EnrichIdle
    /\ AskIdle
    /\ BulkIdle
    /\ QueryIdle
    /\ ParseIdle
    /\ ChatIdle
    /\ StartIdle
    /\ WorkerIdle
    /\ ServiceIdle

EnrichStep(b) ==
    \/ EnrichStart(b)
    \/ EnrichFetchFail(b)
    \/ EnrichNotesError(b)
    \/ EnrichSkip(b)
    \/ EnrichRequestException(b)
    \/ EnrichHttpFail(b)
    \/ EnrichPatchFail(b)
    \/ EnrichUpdate(b)
    \/ EnrichFinish(b)

NextEnrich == EnrichStep("b1")

SpecEnrich == InitEnrich /\ [][NextEnrich]_vars

\* ------------------------------------------------- enrichment: properties
FailureKinds == {"http_fail", "exception"}

CallsFor(b, gid) == {i \in 1..Len(calls) : calls[i].by = b /\ calls[i].gid = gid}

\* C1: a failure on one selected task (a non-200 answer, or an exception
\* while handling the task, a failing patch call included) is counted in
\* 'failed', issues no successful notes patch for that task, and does not
\* abort the batch: the tasks are visited in order, one trace entry each, and
\* a batch that ends after a successful fetch has visited every selected task.
C1_FailureIsolated ==
    \A b \in Batches :
        /\ Len(eTrace[b]) = eIdx[b] - 1
        /\ \A i \in 1..Len(eTrace[b]) : eTrace[b][i].gid = eTodo[b][i].gid
        /\ eResults[b].failed = Count(eTrace[b], LAMBDA e : e.kind \in FailureKinds)
        /\ \A i \in 1..Len(eTrace[b]) :
              eTrace[b][i].kind \in FailureKinds =>
                 \A c \in CallsFor(b, eTrace[b][i].gid) :
                    ~(calls[c].op = "patch" /\ calls[c].ok)
        /\ (ePc[b] = "done" /\ eFetched[b]) => Len(eTrace[b]) = Len(eTodo[b])

\* A finished batch whose first task failed on its patch call and whose
\* second task was updated.
C1_Witness ==
    \E b \in Batches :
        /\ ePc[b] = "done"
        /\ Len(eTrace[b]) >= 2
        /\ eTrace[b][1].kind = "exception"
        /\ \E c \in CallsFor(b, eTrace[b][1].gid) :
              calls[c].op = "patch" /\ ~calls[c].ok
        /\ eTrace[b][2].kind = "updated"
        /\ eResults[b].failed = 1

\* C2: for every limit >= 0 (0 included) at most `limit` incomplete tasks
\* are selected; with the limit unset all incomplete tasks are; completed
\* tasks are never selected.
C2_AtMostLimit ==
    \A b \in Batches :
        eFetched[b] =>
            /\ eLimit[b] # NoneVal => Len(eTodo[b]) <= eLimit[b][1]
            /\ eLimit[b] = NoneVal => Len(eTodo[b]) = Len(Incomplete(tasks))
            /\ \A i \in 1..Len(eTodo[b]) : ~eTodo[b][i].completed

\* C3: a selected task whose notes are longer than 200 characters and
\* contain the marker is skipped: no inference request, no patch call, its
\* notes in the tracking service are the fetched ones, and it is counted in
\* 'skipped' only (every counter is the number of trace entries of its kind).
C3_SkipPath ==
    \A b \in Batches :
        /\ \A i \in 1..Len(eTrace[b]) :
              LET t == eTodo[b][i] IN
              (t.notes.len > SkipThreshold /\ t.notes.marker) =>
                 /\ eTrace[b][i].kind = "skipped"
                 /\ CallsFor(b, t.gid) = {}
                 /\ \A j \in 1..Len(tasks) :
                       tasks[j].gid = t.gid => tasks[j].notes = t.notes
        /\ eResults[b].skipped = Count(eTrace[b], LAMBDA e : e.kind = "skipped")
        /\ eResults[b].updated = Count(eTrace[b], LAMBDA e : e.kind = "updated")
        /\ eResults[b].failed = Count(eTrace[b], LAMBDA e : e.kind \in FailureKinds)
        /\ eResults[b].processed =
              Count(eTrace[b], LAMBDA e : e.kind \in {"updated", "http_fail"})

\* A finished batch that skipped its first task and updated its second.
C3_Witness ==
    \E b \in Batches :
        /\ ePc[b] = "done"
        /\ Len(eTrace[b]) >= 2
        /\ eTrace[b][1].kind = "skipped"
        /\ eTrace[b][2].kind = "updated"
        /\ eResults[b].skipped = 1

\* C4: the function returns the aggregate counts of the batch it ran.
C4_ReturnsCounts ==
    \A b \in Batches :
        (ePc[b] = "done" /\ eFetched[b]) => eRet[b] = Some(eResults[b])

\* -------------------------------------------------------- bulk_assign_tasks
\* Longest tasks argument of bulk_assign_tasks.
MaxBulkTasks == 2

\* str.lower() on a symbol and on a string
LowerSym(c) == CASE c = "A" -> "a" [] c = "B" -> "b" [] OTHER -> c
Lower(s) == [i \in DOMAIN s |-> LowerSym(s[i])]

\* assignee.lower() in user['name'].lower()
NameMatches(user, assignee) == Contains(Lower(user.name), Lower(assignee))

Min(S) == CHOOSE x \in S : \A y \in S : x <= y
Max(S) == CHOOSE x \in S : \A y \in S : x >= y

\* A bug: the scan does not stop at the first match, the last match wins.
M_FindAssignee(us, assignee) ==
    LET hits == {i \in 1..Len(us) : NameMatches(us[i], assignee)} IN
    IF hits = {} THEN NoneVal ELSE Some(us[Max(hits)].gid)

\* for user in users: if <match>: assignee_gid = user['gid']; break
FindAssignee(us, assignee) ==
    LET hits == {i \in 1..Len(us) : NameMatches(us[i], assignee)} IN
    IF hits = {} THEN NoneVal ELSE Some(us[Min(hits)].gid)

\* tasks.update_task(task_id, update_data) when it succeeds
PatchAssignee(ts, gid, assignee, due) ==
    [i \in DOMAIN ts |->
        IF ts[i].gid = gid
        THEN [ts[i] EXCEPT !.assignee = Some(assignee),
                           !.due_on = IF due # NoneVal THEN due ELSE @]
        ELSE ts[i]]

BulkCall(op, gid, ok) ==
    [op |-> op, gid |-> gid, assignee |-> bulkGid, due |-> bulkDue, ok |-> ok]

BulkCur == bulkTasks[bulkIdx]
BulkInLoop == bulkPc = "loop" /\ bulkIdx <= Len(bulkTasks)

\* The tasks entry of a task: its id ('Unknown' is None), its name, and the
\* error message of a failure.
BulkEntry(id, name, err) == [id |-> id, name |-> name, error |-> err]

\* users.find_all() raises: the call is outside every try block.
BulkLookupFail ==
    /\ bulkPc = "idle"
    /\ bulkPc' = "raised"
    /\ bulkError' = "users.find_all failed"
    /\ bulkCalls' = Append(bulkCalls, BulkCall("users", 0, FALSE))
    /\ UNCHANGED <<bulkArgs, bulkGid, bulkIdx, bulkTaskId, bulkResults, bulkRet>>
    /\ UNCHANGED <<trackerVars, notBulk>>

\* No user matches: return results (all zero).
BulkNoUser ==
    /\ bulkPc = "idle"
    /\ FindAssignee(users, bulkAssignee) = NoneVal
    /\ bulkPc' = "returned"
    /\ bulkRet' = Some(bulkResults)
    /\ bulkCalls' = Append(bulkCalls, BulkCall("users", 0, TRUE))
    /\ UNCHANGED <<bulkArgs, bulkGid, bulkIdx, bulkTaskId, bulkResults, bulkError>>
    /\ UNCHANGED <<trackerVars, notBulk>>

\* A user matches: update_data is prepared and the loop starts.
BulkResolved ==
    /\ bulkPc = "idle"
    /\ FindAssignee(users, bulkAssignee) # NoneVal
    /\ bulkGid' = FindAssignee(users, bulkAssignee)
    /\ bulkPc' = "loop"
    /\ bulkCalls' = Append(bulkCalls, BulkCall("users", 0, TRUE))
    /\ UNCHANGED <<bulkArgs, bulkIdx, bulkTaskId, bulkResults, bulkError, bulkRet>>
    /\ UNCHANGED <<trackerVars, notBulk>>

\* task_id = task['gid'] and the patch call succeed.
BulkPatchOk ==
    /\ BulkInLoop
    /\ BulkCur.gid # NoneVal
    /\ bulkTaskId' = BulkCur.gid
    /\ tasks' = PatchAssignee(tasks, BulkCur.gid[1], bulkGid[1], bulkDue)
    /\ bulkCalls' = Append(bulkCalls, BulkCall("patch", BulkCur.gid[1], TRUE))
    /\ bulkResults' = [bulkResults EXCEPT
                         !.success = @ + 1,
                         !.tasks = Append(@, BulkEntry(BulkCur.gid, BulkCur.name, NoneVal))]
    /\ bulkIdx' = bulkIdx + 1
    /\ UNCHANGED <<bulkArgs, bulkPc, bulkGid, bulkError, bulkRet>>
    /\ UNCHANGED <<calls, notBulk>>

\* The patch call raises: the handler records the failure with str(e).
BulkPatchFail ==
    /\ BulkInLoop
    /\ BulkCur.gid # NoneVal
    /\ bulkTaskId' = BulkCur.gid
    /\ bulkCalls' = Append(bulkCalls, BulkCall("patch", BulkCur.gid[1], FALSE))
    /\ bulkResults' = [bulkResults EXCEPT
                         !.failed = @ + 1,
                         !.tasks = Append(@, BulkEntry(BulkCur.gid, BulkCur.name,
                                                       Some("update_task failed")))]
    /\ bulkIdx' = bulkIdx + 1
    /\ UNCHANGED <<bulkArgs, bulkPc, bulkGid, bulkError, bulkRet>>
    /\ UNCHANGED <<trackerVars, notBulk>>

\* What the handler's last line, print(... task.get('name', task_id) ...),
\* does after task['gid'] raised KeyError: task_id is evaluated, and is
\* unbound when no earlier iteration assigned it.
HandlerPrint ==
    IF bulkTaskId # NoneVal
    THEN /\ bulkIdx' = bulkIdx + 1
         /\ UNCHANGED <<bulkPc, bulkError>>
    ELSE /\ bulkPc' = "raised"
         /\ bulkError' = "UnboundLocalError: task_id"
         /\ UNCHANGED bulkIdx

\* task['gid'] raises KeyError: the handler records the failure.
BulkMissingGid ==
    /\ BulkInLoop
    /\ BulkCur.gid = NoneVal
    /\ bulkResults' = [bulkResults EXCEPT
                         !.failed = @ + 1,
                         !.tasks = Append(@, BulkEntry(NoneVal, BulkCur.name,
                                                       Some("'gid'")))]
    /\ HandlerPrint
    /\ UNCHANGED <<bulkArgs, bulkGid, bulkTaskId, bulkCalls, bulkRet>>
    /\ UNCHANGED <<trackerVars, notBulk>>

\* return results
BulkReturn ==
    /\ bulkPc = "loop"
    /\ bulkIdx > Len(bulkTasks)
    /\ bulkPc' = "returned"
    /\ bulkRet' = Some(bulkResults)
    /\ UNCHANGED <<bulkArgs, bulkGid, bulkIdx, bulkTaskId, bulkResults,
                   bulkCalls, bulkError>>
    /\ UNCHANGED <<trackerVars, notBulk>>

\* The users of the tracking service, the assignee strings and the task
\* lists bulk_assign_tasks is called with.
UserNames == {<<"A", "b">>, <<"b", "a">>, <<"B">>}
UserLists ==
    UNION {{[i \in 1..n |-> [gid |-> 10 + i, name |-> f[i]]] :
            f \in [1..n -> UserNames]} : n \in 0..2}
Assignees == {<<>>, <<"a">>, <<"B">>, <<"a", "b">>, <<"z">>}
BulkTaskDicts ==
    {[gid |-> Some(1), name |-> <<"x">>], [gid |-> Some(2), name |-> <<"y">>],
     [gid |-> NoneVal, name |-> <<"n">>]}
BulkTaskLists == UNION {[1..n -> BulkTaskDicts] : n \in 0..MaxBulkTasks}
BulkProject ==
    <<Task(1, <<"x">>, FALSE, Notes(0, FALSE), NoneVal, NoneVal),
      Task(2, <<"y">>, FALSE, Notes(0, FALSE), Some(3), Some(11))>>

InitBulk ==
    /\ tasks = BulkProject
    /\ calls = <<>>
    /\ EnrichIdle
    /\ AskIdle
    /\ users \in UserLists
    /\ bulkTasks \in BulkTaskLists
    /\ bulkAssignee \in Assignees
    /\ bulkDue \in {NoneVal, Some(7)}
    /\ bulkPc = "idle"
    /\ bulkGid = NoneVal
    /\ bulkIdx = 1
    /\ bulkTaskId = NoneVal
    /\ bulkResults = ZeroBulk
    /\ bulkCalls = <<>>
    /\ bulkError = "none"
    /\ bulkRet = NoneVal
    /\ QueryIdle
    /\ ParseIdle
    /\ ChatIdle
    /\ StartIdle
    /\ WorkerIdle
    /\ ServiceIdle

NextBulk ==
    \/ BulkLookupFail
    \/ BulkNoUser
    \/ BulkResolved
    \/ BulkPatchOk
    \/ BulkPatchFail
    \/ BulkMissingGid
    \/ BulkReturn

SpecBulk == InitBulk /\ [][NextBulk]_vars

\* --------------------------------------- get_task_status, get_upcoming_tasks
\* Longest task list of the mixed projects of the status runs.
MaxStatusTasks == 2
\* Longest task list of the uniform projects of the status runs.
MaxBigTasks == 10
\* datetime.now().date(), as a day number
Today == 5
\* get_upcoming_tasks(days=7)
DefaultDays == 7

\* f"PHASE {phase_num}:"
Marker(phase_num) == <<"PHASE ">> \o phase_num \o <<":">>

\* A bug: no break, the task is counted in every phase whose marker occurs.
M_TaskPhases(name, keys) ==
    {keys[k] : k \in {k \in 1..Len(keys) : Contains(name, Marker(keys[k]))}}

\* for phase_num in IMPLEMENTATION_PHASES.keys(): if <marker in name>: ...; break
\* The phases a task is counted in: the first one whose marker occurs.
TaskPhases(name, keys) ==
    LET hits == {k \in 1..Len(keys) : Contains(name, Marker(keys[k]))} IN
    IF hits = {} THEN {} ELSE {keys[Min(hits)]}

\* A bug: the percentage is cut to one decimal, not rounded.
M_Round1(c, t) == (1000 * c) \div t

\* round((c / t) * 100, 1), in tenths of a percent. Python rounds the float
\* to the nearest tenth, a tie to the even one. The float product lies where
\* the exact quotient does for every total below 80 (at 23/80 the float is
\* just under the tie 28.75).
Round1(c, t) ==
    LET q == (1000 * c) \div t
        r == (1000 * c) % t
    IN  IF 2 * r < t THEN q
        ELSE IF 2 * r > t THEN q + 1
        ELSE IF q % 2 = 0 THEN q ELSE q + 1

\* round(...) if total > 0 else 0
Percentage(c, t) == IF t > 0 THEN Round1(c, t) ELSE 0

\* The phases dictionary: a bucket for every phase some task is counted in.
Phases(ts, keys) ==
    LET used == UNION {TaskPhases(ts[i].name, keys) : i \in 1..Len(ts)} IN
    [p \in used |->
        LET tot == Count(ts, LAMBDA t : p \in TaskPhases(t.name, keys))
            com == Count(ts, LAMBDA t : p \in TaskPhases(t.name, keys)
                                        /\ t.completed)
        IN  [total |-> tot, completed |-> com, percentage |-> Percentage(com, tot)]]

\* not task.get('completed', False) and not task.get('assignee')
IsUnassigned(t) == ~t.completed /\ t.assignee = NoneVal

\* A bug: a task due today is overdue.
M_IsOverdue(t, today) ==
    ~t.completed /\ t.due_on # NoneVal /\ t.due_on[1] <= today

\* not task.get('completed', False) and task.get('due_on')
\*     and task.get('due_on') < today
IsOverdue(t, today) ==
    ~t.completed /\ t.due_on # NoneVal /\ t.due_on[1] < today

\* The dictionary get_task_status returns for the fetched tasks, a list
\* (len() is taken of it). Dates are day numbers: the '%Y-%m-%d' strings the
\* code compares are ordered as their dates.
TaskStatus(ts, keys, today) ==
    LET total == Len(ts)
        completed == Count(ts, LAMBDA t : t.completed)
    IN  [total |-> total,
         completed |-> completed,
         incomplete |-> total - completed,
         unassigned |-> Count(ts, IsUnassigned),
         overdue |-> Count(ts, LAMBDA t : IsOverdue(t, today)),
         percentage |-> Percentage(completed, total),
         phases |-> Phases(ts, keys)]

\* get_task_status: the fetch succeeds, the aggregate is returned.
StatusOk ==
    /\ statusPc = "idle"
    /\ statusPc' = "returned"
    /\ statusRet' = Some(TaskStatus(tasks, phaseKeys, Today))
    /\ calls' = Append(calls, [op |-> "fetch", by |-> "status", gid |-> 0, ok |-> TRUE])
    /\ UNCHANGED <<tasks, phaseKeys, upcomingPc, upcomingRet, notQuery>>

\* get_task_status: the fetch raises, the handler returns None.
StatusFetchFail ==
    /\ statusPc = "idle"
    /\ statusPc' = "returned"
    /\ statusRet' = NoneVal
    /\ calls' = Append(calls, [op |-> "fetch", by |-> "status", gid |-> 0, ok |-> FALSE])
    /\ UNCHANGED <<tasks, phaseKeys, upcomingPc, upcomingRet, notQuery>>

\* The tracking service's answer to 'due_on.before': target_date.
DueBefore(ts, target) ==
    SelectSeq(ts, LAMBDA t : t.due_on # NoneVal /\ t.due_on[1] < target)

\* get_upcoming_tasks: the fetch succeeds, the incomplete tasks are returned.
UpcomingOk ==
    /\ upcomingPc = "idle"
    /\ upcomingPc' = "returned"
    /\ upcomingRet' = Incomplete(DueBefore(tasks, Today + DefaultDays))
    /\ calls' = Append(calls, [op |-> "fetch", by |-> "upcoming", gid |-> 0, ok |-> TRUE])
    /\ UNCHANGED <<tasks, phaseKeys, statusPc, statusRet, notQuery>>

\* get_upcoming_tasks: the fetch raises, the handler returns [].
UpcomingFetchFail ==
    /\ upcomingPc = "idle"
    /\ upcomingPc' = "returned"
    /\ upcomingRet' = <<>>
    /\ calls' = Append(calls, [op |-> "fetch", by |-> "upcoming", gid |-> 0, ok |-> FALSE])
    /\ UNCHANGED <<tasks, phaseKeys, statusPc, statusRet, notQuery>>

\* The phase mappings: the keys of IMPLEMENTATION_PHASES in their order.
PhaseKeyOrders ==
    {<<>>, <<<<"1">>>>, <<<<"1">>, <<"2">>>>, <<<<"2">>, <<"1">>>>}

\* Task names with one marker, two markers in either order, a marker of an
\* unknown phase, a marker without its colon, and none.
StatusNames ==
    {<<"x">>,
     <<"PHASE ", "1", ":", "x">>,
     <<"x", "PHASE ", "2", ":">>,
     <<"PHASE ", "1", ":", "PHASE ", "2", ":">>,
     <<"PHASE ", "2", ":", "PHASE ", "1", ":">>,
     <<"PHASE ", "1", "2", ":">>,
     <<"PHASE ", "3", ":">>,
     <<"PHASE ", "1">>}

\* Projects of at most MaxStatusTasks tasks of every name, completed or not.
PhaseProjects ==
    UNION {{[i \in 1..n |-> Task(i, k[i].name, k[i].completed, Notes(0, FALSE),
                                 NoneVal, NoneVal)] :
            k \in [1..n -> [name : StatusNames, completed : BOOLEAN]]} :
           n \in 0..MaxStatusTasks}

\* Projects of at most MaxStatusTasks tasks with and without assignee and
\* due date (overdue, due today, due within and after the window).
DueDates == {NoneVal, Some(Today - 1), Some(Today), Some(Today + DefaultDays)}
DeadlineProjects ==
    UNION {{[i \in 1..n |-> Task(i, <<"x">>, k[i].completed, Notes(0, FALSE),
                                 k[i].due_on, k[i].assignee)] :
            k \in [1..n -> [completed : BOOLEAN, due_on : DueDates,
                            assignee : {NoneVal, Some(11)}]]} :
           n \in 0..MaxStatusTasks}

\* Projects of n <= MaxBigTasks tasks: the first p are tasks of phase 2, the
\* tasks s .. s+c-1 are completed.
BigProjects ==
    {[i \in 1..n |-> Task(i, IF i <= p THEN <<"PHASE ", "2", ":", "x">> ELSE <<"x">>,
                          i >= s /\ i < s + c, Notes(0, FALSE), NoneVal, NoneVal)] :
     n \in (MaxStatusTasks + 1)..MaxBigTasks, p \in {0, 5}, s \in 1..3, c \in 0..MaxBigTasks}

InitQuery ==
    /\ tasks \in PhaseProjects \cup DeadlineProjects \cup BigProjects
    /\ calls = <<>>
    /\ EnrichIdle
    /\ AskIdle
    /\ BulkIdle
    /\ phaseKeys \in PhaseKeyOrders
    /\ statusPc = "idle"
    /\ statusRet = NoneVal
    /\ upcomingPc = "idle"
    /\ upcomingRet = <<>>
    /\ ParseIdle
    /\ ChatIdle
    /\ StartIdle
    /\ WorkerIdle
    /\ ServiceIdle

NextQuery == StatusOk \/ StatusFetchFail \/ UpcomingOk \/ UpcomingFetchFail

SpecQuery == InitQuery /\ [][NextQuery]_vars

\* ------------------------------------------------------ bulk: properties
\* C6: a failure of an external call (task fetch, task patch, user lookup,
\* inference request) never leaves a component operation as an exception:
\* no operation ends raised by a failed external call.
C6_NoEscape ==
    /\ askPc # "raised"
    /\ \A b \in Batches : ePc[b] # "raised"
    /\ statusPc # "raised"
    /\ upcomingPc # "raised"
    /\ ~(bulkPc = "raised" /\ bulkError = "users.find_all failed")

\* C7: once the assignee is resolved the loop is never aborted: nothing is
\* raised, and the result holds one entry per input task in input order,
\* success + failed is the number of input tasks, and exactly the failed
\* entries carry an error message.
C7_LoopNeverAborts ==
    bulkGid # NoneVal =>
        /\ bulkPc # "raised"
        /\ bulkPc = "returned" =>
              LET r == bulkRet[1] IN
              /\ Len(r.tasks) = Len(bulkTasks)
              /\ \A i \in 1..Len(r.tasks) :
                    /\ r.tasks[i].id = bulkTasks[i].gid
                    /\ r.tasks[i].name = bulkTasks[i].name
              /\ r.success + r.failed = Len(bulkTasks)
              /\ r.failed = Count(r.tasks, LAMBDA e : e.error # NoneVal)

\* User i matches the assignee argument; the patch calls issued.
IsHit(i) == Contains(Lower(users[i].name), Lower(bulkAssignee))
BulkPatches == {i \in 1..Len(bulkCalls) : bulkCalls[i].op = "patch"}

\* C8: an assignee string that is a case-insensitive substring of no user's
\* name gives the all-zero result and no patch call; otherwise every patch
\* call assigns the first matching user of the user list, and a patched task
\* has that user as its assignee.
C8_AssigneeResolution ==
    /\ (\A i \in 1..Len(users) : ~IsHit(i)) =>
          /\ BulkPatches = {}
          /\ bulkPc = "returned" => bulkRet = Some(ZeroBulk)
          /\ bulkPc \in {"idle", "returned", "raised"}
    /\ \A p \in BulkPatches :
          \E i \in 1..Len(users) :
              /\ IsHit(i)
              /\ \A j \in 1..(i - 1) : ~IsHit(j)
              /\ bulkCalls[p].assignee = Some(users[i].gid)
              /\ bulkCalls[p].ok =>
                    \A t \in 1..Len(tasks) :
                        tasks[t].gid = bulkCalls[p].gid =>
                            tasks[t].assignee = Some(users[i].gid)

\* The call has returned for an assignee no user matches, with users and
\* tasks to assign.
C8_Witness ==
    /\ bulkPc = "returned"
    /\ Len(users) = 2
    /\ Len(bulkTasks) = 2
    /\ bulkAssignee = <<"z">>
    /\ bulkRet = Some(ZeroBulk)

\* Two users match (the second with another case), and a task was patched.
C8_WitnessFirstMatch ==
    /\ bulkPc = "returned"
    /\ Len(users) = 2
    /\ IsHit(1) /\ IsHit(2)
    /\ bulkAssignee = <<"B">>
    /\ users[1].name = <<"A", "b">>
    /\ \E p \in BulkPatches : bulkCalls[p].ok

\* ---------------------------------------------------- status: properties
RECURSIVE SumTotals(_, _)
SumTotals(ph, S) ==
    IF S = {} THEN 0
    ELSE LET k == CHOOSE k \in S : TRUE IN ph[k].total + SumTotals(ph, S \ {k})

\* Task i is counted in the phase at position a of the mapping: its marker
\* occurs in the name and no earlier phase's marker does.
CountedAt(i, a) ==
    /\ Contains(tasks[i].name, <<"PHASE ">> \o phaseKeys[a] \o <<":">>)
    /\ \A a2 \in 1..(a - 1) :
          ~Contains(tasks[i].name, <<"PHASE ">> \o phaseKeys[a2] \o <<":">>)

\* C9: a task is counted in at most one phase bucket, that of the first
\* phase of the mapping whose marker occurs in its name; the phase totals
\* sum to at most the overall total, every bucket has
\* 0 <= completed <= total, and its completed count is the number of
\* completed tasks counted in it.
C9_PhaseBuckets ==
    (statusPc = "returned" /\ statusRet # NoneVal) =>
        LET r == statusRet[1]
            ph == r.phases
        IN  /\ \A k \in DOMAIN ph : \E a \in 1..Len(phaseKeys) : phaseKeys[a] = k
            /\ \A a \in 1..Len(phaseKeys) :
                  LET members == {i \in 1..Len(tasks) : CountedAt(i, a)}
                      k == phaseKeys[a]
                  IN  IF members = {} THEN k \notin DOMAIN ph
                      ELSE /\ k \in DOMAIN ph
                           /\ ph[k].total = Cardinality(members)
                           /\ ph[k].completed =
                                 Cardinality({i \in members : tasks[i].completed})
            /\ \A k \in DOMAIN ph : 0 <= ph[k].completed /\ ph[k].completed <= ph[k].total
            /\ SumTotals(ph, DOMAIN ph) <= r.total

\* A status whose tasks carry the markers of both phases, in both orders:
\* both are counted in the first phase of the mapping only.
C9_Witness ==
    /\ statusPc = "returned"
    /\ statusRet # NoneVal
    /\ phaseKeys = <<<<"2">>, <<"1">>>>
    /\ Len(tasks) = 2
    /\ tasks[1].name = <<"PHASE ", "1", ":", "PHASE ", "2", ":">>
    /\ tasks[2].name = <<"PHASE ", "2", ":", "PHASE ", "1", ":">>
    /\ tasks[1].completed /\ ~tasks[2].completed
    /\ DOMAIN statusRet[1].phases = {<<"2">>}
    /\ statusRet[1].phases[<<"2">>].total = 2

\* p (in tenths of a percent) is c/t*100 rounded to one decimal.
IsRounded(p, c, t) ==
    /\ 2 * (p * t - 1000 * c) <= t
    /\ 2 * (1000 * c - p * t) <= t

\* C10: completed + incomplete = total; the overall percentage and every
\* phase percentage are completed/total*100 rounded to one decimal (10 tasks
\* with 4 completed give 40.0, a phase with 5 total and 3 completed gives
\* 60.0) and lie between 0 and 100; the overall percentage is 0 when total
\* is 0.
C10_Percentages ==
    (statusPc = "returned" /\ statusRet # NoneVal) =>
        LET r == statusRet[1] IN
        /\ r.total = Len(tasks)
        /\ r.completed = Cardinality({i \in 1..Len(tasks) : tasks[i].completed})
        /\ r.completed + r.incomplete = r.total
        /\ r.total = 0 => r.percentage = 0
        /\ r.total > 0 => IsRounded(r.percentage, r.completed, r.total)
        /\ 0 <= r.percentage /\ r.percentage <= 1000
        /\ (r.total = 10 /\ r.completed = 4) => r.percentage = 400
        /\ \A k \in DOMAIN r.phases :
              LET d == r.phases[k] IN
              /\ d.total > 0
              /\ IsRounded(d.percentage, d.completed, d.total)
              /\ 0 <= d.percentage /\ d.percentage <= 1000
              /\ (d.total = 5 /\ d.completed = 3) => d.percentage = 600

\* The status of 10 tasks with 4 completed, 5 of them in phase 2 with 3
\* completed.
C10_Witness ==
    /\ statusPc = "returned"
    /\ statusRet # NoneVal
    /\ statusRet[1].total = 10
    /\ statusRet[1].completed = 4
    /\ statusRet[1].incomplete = 6
    /\ statusRet[1].percentage = 400
    /\ <<"2">> \in DOMAIN statusRet[1].phases
    /\ statusRet[1].phases[<<"2">>] = [total |-> 5, completed |-> 3, percentage |-> 600]

\* The status of 3 tasks with 2 completed: 66.7, rounded up.
C10_WitnessRoundUp ==
    /\ statusPc = "returned"
    /\ statusRet # NoneVal
    /\ statusRet[1].total = 3
    /\ statusRet[1].completed = 2
    /\ statusRet[1].percentage = 667

\* ------------------------------------------------- status counts: properties
\* C11: in the summary get_task_status returns, 'unassigned' is the number of
\* tasks that are incomplete and have no assignee, 'overdue' the number of
\* tasks that are incomplete, have a due date, and whose due date is strictly
\* before today; both are at most 'incomplete'; a completed task and a task
\* due today are never overdue.
C11_UnassignedOverdue ==
    (statusPc = "returned" /\ statusRet # NoneVal) =>
        LET st == statusRet[1]
            un == {i \in 1..Len(tasks) :
                     ~tasks[i].completed /\ tasks[i].assignee = NoneVal}
            od == {i \in 1..Len(tasks) :
                     /\ ~tasks[i].completed
                     /\ tasks[i].due_on \in {Some(d) : d \in 0..(Today - 1)}}
        IN  /\ st.unassigned = Cardinality(un)
            /\ st.overdue = Cardinality(od)
            /\ st.unassigned <= st.incomplete
            /\ st.overdue <= st.incomplete
            /\ \A i \in od : ~tasks[i].completed /\ tasks[i].due_on # Some(Today)
            /\ (\A i \in 1..Len(tasks) :
                    tasks[i].completed \/ tasks[i].due_on = Some(Today))
                => st.overdue = 0

\* A summary of a project with an overdue task, a task due today that is not
\* counted, and an unassigned task.
C11_Witness ==
    /\ statusPc = "returned"
    /\ statusRet # NoneVal
    /\ Len(tasks) = 2
    /\ ~tasks[1].completed /\ tasks[1].due_on = Some(Today - 1)
    /\ tasks[1].assignee = NoneVal
    /\ ~tasks[2].completed /\ tasks[2].due_on = Some(Today)
    /\ tasks[2].assignee # NoneVal
    /\ statusRet[1].overdue = 1
    /\ statusRet[1].unassigned = 1
    /\ statusRet[1].incomplete = 2

\* A summary of a project whose only past-due task is completed: overdue = 0.
C11_WitnessCompleted ==
    /\ statusPc = "returned"
    /\ statusRet # NoneVal
    /\ \E i \in 1..Len(tasks) :
          tasks[i].completed /\ tasks[i].due_on = Some(Today - 1)
    /\ statusRet[1].overdue = 0

\* ------------------------------------------- knowledge file and phase parser
\* Most headings a knowledge file is written from.
MaxHeadings == 2

\* \d and \s of Python's re on the symbols of the model; '.' is any symbol
\* but the newline.
IsDigit(c) == c \in {"0", "1", "2", "3", "4", "5", "6", "7", "8", "9"}
IsSpace(c) == c \in {" ", "\n", "\t"}

\* The fallback blob, one symbol.
NoKnowledge == <<"No specific domain knowledge provided.">>

\* The last position of the run of symbols satisfying Test that starts at
\* position i of s (i - 1 when the run is empty).
RECURSIVE DigitsEnd(_, _)
DigitsEnd(s, i) ==
    IF i <= Len(s) /\ IsDigit(s[i]) THEN DigitsEnd(s, i + 1) ELSE i - 1

RECURSIVE SpacesEnd(_, _)
SpacesEnd(s, i) ==
    IF i <= Len(s) /\ IsSpace(s[i]) THEN SpacesEnd(s, i + 1) ELSE i - 1

\* \s*\(([^)]+)\) at position e of s: the positions of "(" and of the ")"
\* that ends the match, or None.
TimelineAt(s, e) ==
    LET p == SpacesEnd(s, e) + 1
        closes == {q \in (p + 1)..Len(s) : s[q] = ")"}
    IN  IF p <= Len(s) /\ s[p] = "(" /\ closes # {} /\ Min(closes) >= p + 2
        THEN Some([open |-> p, close |-> Min(closes)])
        ELSE NoneVal

\* A bug: the name is matched greedily, up to the last parenthesised group
\* of its line.
M_NameEnds(s, n0) ==
    LET ks == {k \in 0..(Len(s) - n0 + 1) :
                  /\ \A x \in n0..(n0 + k - 1) : s[x] # "\n"
                  /\ TimelineAt(s, n0 + k) # NoneVal}
    IN  IF ks = {} THEN NoneVal ELSE Some(Max(ks))

\* (.*?) from position n0 of s: the length of the shortest run of symbols
\* other than the newline after which the rest of the pattern matches.
NameEnds(s, n0) ==
    LET ks == {k \in 0..(Len(s) - n0 + 1) :
                  /\ \A x \in n0..(n0 + k - 1) : s[x] # "\n"
                  /\ TimelineAt(s, n0 + k) # NoneVal}
    IN  IF ks = {} THEN NoneVal ELSE Some(Min(ks))

\* phase_pattern matched at position i of s: the three groups and the
\* position of the last symbol of the match, or None.
\* r"PHASE (\d+): (.*?)\s*\(([^)]+)\)"
MatchAt(s, i) ==
    LET j == DigitsEnd(s, i + 1) IN
    IF /\ s[i] = "PHASE "
       /\ j >= i + 1
       /\ j + 2 <= Len(s)
       /\ s[j + 1] = ":"
       /\ s[j + 2] = " "
       /\ NameEnds(s, j + 3) # NoneVal
    THEN LET e == j + 3 + NameEnds(s, j + 3)[1]
             t == TimelineAt(s, e)[1]
         IN  Some([phase_num |-> SubSeq(s, i + 1, j),
                   phase_name |-> SubSeq(s, j + 3, e - 1),
                   timeline |-> SubSeq(s, t.open + 1, t.close - 1),
                   end |-> t.close])
    ELSE NoneVal

\* phase_pattern.findall(s), scanning from position i: the matches from left
\* to right, none overlapping.
RECURSIVE FindAll(_, _)
FindAll(s, i) ==
    IF i > Len(s) THEN <<>>
    ELSE IF MatchAt(s, i) = NoneVal THEN FindAll(s, i + 1)
    ELSE <<MatchAt(s, i)[1]>> \o FindAll(s, MatchAt(s, i)[1].end + 1)

\* The record of one match.
PhaseRecord(m) ==
    [name |-> m.phase_name \o <<" ", "(">> \o m.timeline \o <<")">>,
     description |-> <<>>,
     key_activities |-> <<>>,
     deliverables |-> <<>>]

\* A bug: an assignment to a key the mapping has adds a second entry.
M_DictSet(d, k, v) == Append(d, [key |-> k, value |-> v])

\* d[k] = v on a dictionary: the value of an existing key is replaced where
\* the key stands, a new key is added at the end.
DictSet(d, k, v) ==
    IF \E i \in 1..Len(d) : d[i].key = k
    THEN [i \in 1..Len(d) |-> IF d[i].key = k THEN [key |-> k, value |-> v] ELSE d[i]]
    ELSE Append(d, [key |-> k, value |-> v])

\* for phase_num, phase_name, timeline in matches: IMPLEMENTATION_PHASES[...] = ...
RECURSIVE StorePhases(_, _)
StorePhases(d, matches) ==
    IF matches = <<>> THEN d
    ELSE StorePhases(DictSet(d, Head(matches).phase_num, PhaseRecord(Head(matches))),
                     Tail(matches))

\* Path.txt is read.
LoadKnowledge ==
    /\ parsePc = "start"
    /\ pathTxt # NoneVal
    /\ DOMAIN_KNOWLEDGE' = pathTxt[1]
    /\ parsePc' = "loaded"
    /\ UNCHANGED <<pathTxt, headings, IMPLEMENTATION_PHASES, trackerVars, notParse>>

\* Path.txt cannot be read: the handler sets the fallback blob.
LoadFails ==
    /\ parsePc = "start"
    /\ pathTxt = NoneVal
    /\ DOMAIN_KNOWLEDGE' = NoKnowledge
    /\ parsePc' = "loaded"
    /\ UNCHANGED <<pathTxt, headings, IMPLEMENTATION_PHASES, trackerVars, notParse>>

\* if matches: a record is stored for every match.
ParseFound ==
    /\ parsePc = "loaded"
    /\ FindAll(DOMAIN_KNOWLEDGE, 1) # <<>>
    /\ IMPLEMENTATION_PHASES' =
           StorePhases(IMPLEMENTATION_PHASES, FindAll(DOMAIN_KNOWLEDGE, 1))
    /\ parsePc' = "found"
    /\ UNCHANGED <<pathTxt, headings, DOMAIN_KNOWLEDGE, trackerVars, notParse>>

\* else: "No phase information found in Path.txt"
ParseNone ==
    /\ parsePc = "loaded"
    /\ FindAll(DOMAIN_KNOWLEDGE, 1) = <<>>
    /\ parsePc' = "none"
    /\ UNCHANGED <<pathTxt, headings, DOMAIN_KNOWLEDGE, IMPLEMENTATION_PHASES,
                   trackerVars, notParse>>

\* The headings: a phase number of one or two digits, a name of one or two
\* words, then one blank and a timeline of one word, or two blanks and a
\* timeline of two words.
HeadingNums == {<<"1">>, <<"2">>, <<"1", "2">>}
HeadingNames == {<<"a">>, <<"b", " ", "a">>}
HeadingGaps == {<<" ">>, <<" ", " ">>}
Headings ==
    {[num |-> n, name |-> m, gap |-> g,
      timeline |-> IF g = <<" ">> THEN <<"w">> ELSE <<"w", " ", "1">>] :
     n \in HeadingNums, m \in HeadingNames, g \in HeadingGaps}

\* 'PHASE <number>: <name> (<timeline>)'
HeadingText(h) ==
    <<"PHASE ">> \o h.num \o <<":", " ">> \o h.name \o h.gap
        \o <<"(">> \o h.timeline \o <<")">>

\* The text around the headings: a line end, a line of text, a line with a
\* heading that has no timeline.
Fillers == {<<"\n">>, <<"a", " ", "1", "\n">>, <<"PHASE ", "1", ":", " ", "a", "\n">>}

\* The text of a file written from the headings hs, f around each of them.
RECURSIVE FileText(_, _)
FileText(hs, f) ==
    IF hs = <<>> THEN f
    ELSE f \o HeadingText(Head(hs)) \o FileText(Tail(hs), f)

InitParse ==
    /\ tasks = <<>>
    /\ calls = <<>>
    /\ EnrichIdle
    /\ AskIdle
    /\ BulkIdle
    /\ QueryIdle
    /\ \E n \in 0..MaxHeadings : headings \in [1..n -> Headings]
    /\ pathTxt \in {NoneVal} \cup {Some(FileText(headings, f)) : f \in Fillers}
    /\ pathTxt = NoneVal => headings = <<>>
    /\ DOMAIN_KNOWLEDGE = <<>>
    /\ parsePc = "start"
    /\ IMPLEMENTATION_PHASES = <<>>
    /\ ChatIdle
    /\ StartIdle
    /\ WorkerIdle
    /\ ServiceIdle

NextParse == LoadKnowledge \/ LoadFails \/ ParseFound \/ ParseNone

SpecParse == InitParse /\ [][NextParse]_vars

\* The positions of the headings with the phase number k.
HeadingsOf(k) == {i \in 1..Len(headings) : headings[i].num = k}

\* C12: for every knowledge blob written from zero or more well-formed
\* headings 'PHASE <number>: <name> (<timeline>)', the parsed mapping has
\* exactly one record for every distinct phase number, keyed by that number;
\* its name is '<name> (<timeline>)' of the last heading with that number and
\* its description, key_activities and deliverables are empty; with no
\* heading the mapping is empty.
C12_OneRecordPerNumber ==
    parsePc \in {"found", "none"} =>
        LET d == IMPLEMENTATION_PHASES IN
        /\ \A i, j \in 1..Len(d) : d[i].key = d[j].key => i = j
        /\ {d[i].key : i \in 1..Len(d)} = {headings[i].num : i \in 1..Len(headings)}
        /\ \A i \in 1..Len(d) :
              LET h == headings[Max(HeadingsOf(d[i].key))] IN
              /\ d[i].value.name = h.name \o <<" ", "(">> \o h.timeline \o <<")">>
              /\ d[i].value.description = <<>>
              /\ d[i].value.key_activities = <<>>
              /\ d[i].value.deliverables = <<>>
        /\ headings = <<>> => d = <<>>

\* Two headings of one phase number with different names have been parsed:
\* one record, the second heading's name.
C12_Witness ==
    /\ parsePc = "found"
    /\ Len(headings) = 2
    /\ headings[1].num = headings[2].num
    /\ headings[1].name # headings[2].name
    /\ headings[2].gap = <<" ", " ">>
    /\ Len(IMPLEMENTATION_PHASES) = 1
    /\ IMPLEMENTATION_PHASES[1].value.name =
           headings[2].name \o <<" ", "(">> \o headings[2].timeline \o <<")">>

\* A blob without a heading has been parsed: the mapping is empty.
C12_WitnessEmpty ==
    /\ parsePc = "none"
    /\ DOMAIN_KNOWLEDGE # <<>>
    /\ IMPLEMENTATION_PHASES = <<>>

\* ------------------------------------------------- the conversation log
\* Questions handled at a time: the chat framework runs every listener call
\* on a thread of its pool.
MaxHandlers == 2

Handlers == 1..MaxHandlers
ChatUsers == {"U1", "U2"}
HandlerKinds == {"command", "mention"}

\* A dictionary without keys.
EmptyDict == [k \in {} |-> 0]

\* f"slack-{user_id}"
ConversationKey(u) == <<"slack-", u>>

\* The entries a handler appends: the question and the answer of handler h.
UserEntry(h) == [role |-> "user", content |-> h]
AssistantEntry(h) == [role |-> "assistant", content |-> h]

\* conversation_history.get(key, []): the log of a user.
Log(u) ==
    IF ConversationKey(u) \in DOMAIN conversation_history
    THEN listObjs[conversation_history[ConversationKey(u)]]
    ELSE <<>>

\* The handler's frame: what a step of handler h leaves alone.
HandlerStep(h, pc) ==
    /\ hPc' = [hPc EXCEPT ![h] = pc]
    /\ UNCHANGED <<hUser, hKind, trackerVars, notChat>>

\* A question arrives (a slash command 'ask' with content, or a mention with
\* text) and ask_question returns: the answer, or None.
HandleQuestion(h, u, kind, resp) ==
    /\ hPc[h] = "idle"
    /\ hPc' = [hPc EXCEPT ![h] = IF resp = NoneVal THEN "sorry" ELSE "check"]
    /\ hUser' = [hUser EXCEPT ![h] = u]
    /\ hKind' = [hKind EXCEPT ![h] = kind]
    /\ hResp' = [hResp EXCEPT ![h] = resp]
    /\ UNCHANGED <<conversation_history, listObjs, hRef, trackerVars, notChat>>

\* else: say("Sorry, I couldn't get an answer ...")
HandlerSorry(h) ==
    /\ hPc[h] = "sorry"
    /\ HandlerStep(h, "done")
    /\ UNCHANGED <<conversation_history, listObjs, hResp, hRef>>

\* if conversation_key not in conversation_history:
HandlerCheck(h) ==
    /\ hPc[h] = "check"
    /\ HandlerStep(h, IF ConversationKey(hUser[h]) \in DOMAIN conversation_history
                      THEN "get_user" ELSE "create")
    /\ UNCHANGED <<conversation_history, listObjs, hResp, hRef>>

\* conversation_history[conversation_key] = []
StoreNewList(h) ==
    /\ listObjs' = Append(listObjs, <<>>)
    /\ conversation_history' =
         [k \in DOMAIN conversation_history \cup {ConversationKey(hUser[h])} |->
             IF k = ConversationKey(hUser[h]) THEN Len(listObjs) + 1
             ELSE conversation_history[k]]

HandlerCreate(h) ==
    /\ hPc[h] = "create"
    /\ StoreNewList(h)
    /\ HandlerStep(h, "get_user")
    /\ UNCHANGED <<hResp, hRef>>

\* conversation_history[conversation_key] of the first append: the list
\* object is looked up before the entry is built and append is called.
HandlerGet(h, pc, next) ==
    /\ hPc[h] = pc
    /\ hRef' = [hRef EXCEPT ![h] = conversation_history[ConversationKey(hUser[h])]]
    /\ HandlerStep(h, next)
    /\ UNCHANGED <<conversation_history, listObjs, hResp>>

\* .append({...}) on the list object looked up.
HandlerAppend(h, pc, entry, next) ==
    /\ hPc[h] = pc
    /\ listObjs' = [listObjs EXCEPT ![hRef[h]] = Append(@, entry)]
    /\ HandlerStep(h, next)
    /\ UNCHANGED <<conversation_history, hResp, hRef>>

HandlerGetUser(h) == HandlerGet(h, "get_user", "append_user")
HandlerAppendUser(h) == HandlerAppend(h, "append_user", UserEntry(h), "get_assistant")
HandlerGetAssistant(h) == HandlerGet(h, "get_assistant", "append_assistant")
HandlerAppendAssistant(h) ==
    HandlerAppend(h, "append_assistant", AssistantEntry(h), "say")

\* say(response)
HandlerSay(h) ==
    /\ hPc[h] = "say"
    /\ HandlerStep(h, "done")
    /\ UNCHANGED <<conversation_history, listObjs, hResp, hRef>>

InitChat ==
    /\ tasks = <<>>
    /\ calls = <<>>
    /\ EnrichIdle
    /\ AskIdle
    /\ BulkIdle
    /\ QueryIdle
    /\ ParseIdle
    /\ conversation_history = EmptyDict
    /\ listObjs = <<>>
    /\ hPc = [h \in Handlers |-> "idle"]
    /\ hUser = [h \in Handlers |-> "U1"]
    /\ hKind = [h \in Handlers |-> "command"]
    /\ hResp = [h \in Handlers |-> NoneVal]
    /\ hRef = [h \in Handlers |-> 0]
    /\ StartIdle
    /\ WorkerIdle
    /\ ServiceIdle

NextChat ==
    \E h \in Handlers :
        \/ \E u \in ChatUsers, kind \in HandlerKinds, resp \in {NoneVal, Some("answer")} :
              HandleQuestion(h, u, kind, resp)
        \/ HandlerSorry(h)
        \/ HandlerCheck(h)
        \/ HandlerCreate(h)
        \/ HandlerGetUser(h)
        \/ HandlerAppendUser(h)
        \/ HandlerGetAssistant(h)
        \/ HandlerAppendAssistant(h)
        \/ HandlerSay(h)

SpecChat == InitChat /\ [][NextChat]_vars

\* The entries handler h has put in the log of its user.
EntriesOf(h) ==
    {i \in 1..Len(Log(hUser[h])) : Log(hUser[h])[i].content = h}

\* C13: the per-user conversation log is purely additive without a lock:
\* under any interleaving of concurrently handled questions, the log of each
\* user holds the user entry and the assistant entry of every successfully
\* answered question of that user (none is removed or overwritten), and a
\* failed question appends nothing.
C13_LogAdditive ==
    \A h \in Handlers :
        hPc[h] = "done" =>
            IF hResp[h] = NoneVal
            THEN EntriesOf(h) = {}
            ELSE \E i, j \in 1..Len(Log(hUser[h])) :
                    /\ i < j
                    /\ Log(hUser[h])[i] = UserEntry(h)
                    /\ Log(hUser[h])[j] = AssistantEntry(h)

\* ------------------------------------------------------------ configuration
\* The configuration values in the order the module checks them.
ConfigNames ==
    <<"SLACK_BOT_TOKEN", "SLACK_APP_TOKEN", "ASANA_TOKEN", "ASANA_PROJECT_ID",
      "OPENAI_API_KEY">>

\* os.getenv(name): None when the variable is unset, else its text (which
\* can be empty).
EnvValues == {NoneVal, Some(""), Some("value")}

\* `not X` of an optional string: unset or empty.
IsMissing(v) == v = NoneVal \/ v = Some("")

\* A bug: a missing project id only warns.
M_ExitsWhenMissing(name) == name \notin {"OPENAI_API_KEY", "ASANA_PROJECT_ID"}

\* Whether the branch of a missing value ends in sys.exit(1): every branch
\* but the one of OPENAI_API_KEY.
ExitsWhenMissing(name) == name # "OPENAI_API_KEY"

\* if not X: is false, the next check follows.
ConfigPresent ==
    /\ startPc = "check"
    /\ ~IsMissing(env[ConfigNames[cfgIdx]])
    /\ cfgIdx' = cfgIdx + 1
    /\ startPc' = IF cfgIdx = Len(ConfigNames) THEN "init_clients" ELSE "check"
    /\ UNCHANGED <<env, diagnostics, clients, served, trackerVars, notStart>>

\* if not X: print("Warning: ..."); sys.exit(1)
ConfigExit ==
    /\ startPc = "check"
    /\ IsMissing(env[ConfigNames[cfgIdx]])
    /\ ExitsWhenMissing(ConfigNames[cfgIdx])
    /\ diagnostics' = Append(diagnostics, ConfigNames[cfgIdx])
    /\ startPc' = "exited"
    /\ UNCHANGED <<env, cfgIdx, clients, served, trackerVars, notStart>>

\* if not OPENAI_API_KEY: print("Warning: ..."), no exit.
ConfigWarn ==
    /\ startPc = "check"
    /\ IsMissing(env[ConfigNames[cfgIdx]])
    /\ ~ExitsWhenMissing(ConfigNames[cfgIdx])
    /\ diagnostics' = Append(diagnostics, ConfigNames[cfgIdx])
    /\ cfgIdx' = cfgIdx + 1
    /\ startPc' = IF cfgIdx = Len(ConfigNames) THEN "init_clients" ELSE "check"
    /\ UNCHANGED <<env, clients, served, trackerVars, notStart>>

\* asana_client = asana.Client.access_token(...); app = App(token=...)
InitClients ==
    /\ startPc = "init_clients"
    /\ clients' = {"asana_client", "app"}
    /\ startPc' = "ready"
    /\ UNCHANGED <<env, cfgIdx, diagnostics, served, trackerVars, notStart>>

\* The socket handler is connected: "Slack bot started!"
StartService ==
    /\ startPc = "ready"
    /\ startPc' = "serving"
    /\ UNCHANGED <<env, cfgIdx, diagnostics, clients, served, trackerVars, notStart>>

\* A chat command reaches handle_assistant_command.
ServeCommand ==
    /\ startPc = "serving"
    /\ served' = TRUE
    /\ UNCHANGED <<env, cfgIdx, startPc, diagnostics, clients, trackerVars, notStart>>

InitStart ==
    /\ tasks = <<>>
    /\ calls = <<>>
    /\ EnrichIdle
    /\ AskIdle
    /\ BulkIdle
    /\ QueryIdle
    /\ ParseIdle
    /\ ChatIdle
    /\ env \in [{ConfigNames[i] : i \in 1..Len(ConfigNames)} -> EnvValues]
    /\ cfgIdx = 1
    /\ startPc = "check"
    /\ diagnostics = <<>>
    /\ clients = {}
    /\ served = FALSE
    /\ WorkerIdle
    /\ ServiceIdle

NextStart ==
    \/ ConfigPresent
    \/ ConfigExit
    \/ ConfigWarn
    \/ InitClients
    \/ StartService
    \/ ServeCommand

SpecStart == InitStart /\ [][NextStart]_vars

\* The missing values among the first n configuration names.
MissingAmong(n) == {i \in 1..n : IsMissing(env[ConfigNames[i]])}

\* C14: start-up halts with a diagnostic when any one of the five required
\* configuration values (chat bot token, chat app token, tracking-service
\* token, tracking-service project id, inference API key) is missing: no
\* client is initialised and no command is served in that case.
C14_MissingHalts ==
    MissingAmong(5) # {} =>
        /\ clients = {}
        /\ ~served

\* C14 as amended: the same of the first four values; a missing inference
\* API key is reported by a diagnostic and start-up continues. Start-up
\* halted means: the first missing value has been reported, and the program
\* has exited or is still checking the values before it.
C14_MissingOfFourHalts ==
    /\ MissingAmong(4) # {} =>
          /\ clients = {}
          /\ ~served
          /\ startPc \in {"check", "exited"}
          /\ cfgIdx <= Min(MissingAmong(4))
          /\ startPc = "exited" <=> diagnostics = <<ConfigNames[Min(MissingAmong(4))]>>
    /\ (MissingAmong(4) = {} /\ cfgIdx > 5) =>
          /\ startPc # "exited"
          /\ diagnostics = IF 5 \in MissingAmong(5) THEN <<"OPENAI_API_KEY">> ELSE <<>>

\* Start-up has halted on a missing project id, the tokens being set.
C14_Witness ==
    /\ MissingAmong(4) = {4}
    /\ startPc = "exited"
    /\ diagnostics = <<"ASANA_PROJECT_ID">>
    /\ clients = {}

\* A command is served without an inference API key.
C14_WitnessNoKey ==
    /\ MissingAmong(5) = {5}
    /\ served
    /\ clients # {}
    /\ diagnostics = <<"OPENAI_API_KEY">>

\* ------------------------------------------- enrichment counters: properties
\* C18: in a batch whose task fetch succeeded, every visited task has
\* incremented exactly one of 'updated', 'skipped', 'failed', so after the
\* batch updated + skipped + failed is the number of selected tasks;
\* 'processed' counts exactly the tasks for which the inference provider
\* answered and no exception was raised, so processed <= updated + failed
\* and a skipped task is never counted as processed.
C18_CountersPartition ==
    \A b \in Batches :
        eFetched[b] =>
            LET r == eResults[b]
                answered == {i \in 1..Len(eTrace[b]) :
                               eTrace[b][i].kind \in {"updated", "http_fail"}}
            IN  /\ r.updated + r.skipped + r.failed = Len(eTrace[b])
                /\ ePc[b] = "done" =>
                      r.updated + r.skipped + r.failed = Len(eTodo[b])
                /\ r.processed = Cardinality(answered)
                /\ r.processed <= r.updated + r.failed
                /\ r.processed + r.skipped <= Len(eTrace[b])

\* A finished batch of two tasks: the first raised (the patch call, after
\* the provider answered), the second got a non-200 answer; failed = 2 and
\* processed = 1.
C18_Witness ==
    \E b \in Batches :
        /\ ePc[b] = "done"
        /\ eFetched[b]
        /\ Len(eTodo[b]) = 2
        /\ eTrace[b][1].kind = "exception"
        /\ eTrace[b][2].kind = "http_fail"
        /\ eResults[b] = [processed |-> 1, updated |-> 0, skipped |-> 0, failed |-> 2]

\* ------------------------------------------------- enrichment, run after run
\* Most calls of enrich_task_descriptions one after the other.
MaxRuns == 2

\* The calls of enrich_task_descriptions batch b has made so far.
Runs(b) == Cardinality({i \in 1..Len(calls) : calls[i] \in {FetchCall(b, TRUE), FetchCall(b, FALSE)}})

\* The call has returned and the next one begins: a new frame (the
\* operator's next 'enrich', the next chat command).
EnrichAgain(b) ==
    /\ ePc[b] = "done"
    /\ Runs(b) < MaxRuns
    /\ ePc' = [ePc EXCEPT ![b] = "idle"]
    /\ eLimit' = [eLimit EXCEPT ![b] = NoneVal]
    /\ eFetched' = [eFetched EXCEPT ![b] = FALSE]
    /\ eTodo' = [eTodo EXCEPT ![b] = <<>>]
    /\ eIdx' = [eIdx EXCEPT ![b] = 1]
    /\ eResults' = [eResults EXCEPT ![b] = ZeroResults]
    /\ eTrace' = [eTrace EXCEPT ![b] = <<>>]
    /\ eRet' = [eRet EXCEPT ![b] = NoneVal]
    /\ UNCHANGED <<trackerVars, notEnrich>>

NextEnrichRuns == EnrichStep("b1") \/ EnrichAgain("b1")

SpecEnrichRuns == InitEnrich /\ [][NextEnrichRuns]_vars

\* The successful notes patches of the task gid.
PatchesOf(gid) ==
    {i \in 1..Len(calls) :
        calls[i].op = "patch" /\ calls[i].gid = gid /\ calls[i].ok}

\* C16: enrichment is idempotent across runs: a task whose notes one run has
\* patched with the marked block is skipped by every later run, whatever the
\* generated description and the original notes, so its notes are patched
\* at most once and never receive a second description block.
C16_EnrichedOnce ==
    \A i \in 1..Len(tasks) :
        /\ Cardinality(PatchesOf(tasks[i].gid)) <= 1
        /\ \A j \in 1..Len(eTrace["b1"]) :
              (/\ eTrace["b1"][j].gid = tasks[i].gid
               /\ \E c \in PatchesOf(tasks[i].gid) :
                     \E f \in (c + 1)..Len(calls) : calls[f].op = "fetch" /\ calls[f].ok)
              => eTrace["b1"][j].kind = "skipped"

\* ------------------------------------------------ two enrichment batches
\* Two batches at a time: the worker thread of a chat 'enrich' command and
\* the operator's 'enrich', or the worker threads of two chat commands. Each
\* works on the snapshot it fetched.
NextEnrichBoth == \E b \in Batches : EnrichStep(b)

\* Longest task list of the runs of two batches.
MaxBothTasks == 1

InitEnrichBoth ==
    /\ InitEnrich
    /\ Len(tasks) <= MaxBothTasks

SpecEnrichBoth == InitEnrichBoth /\ [][NextEnrichBoth]_vars

\* Batch b patches a task whose notes in the tracking service are no longer
\* the ones b fetched: update_task replaces them by b's snapshot and b's block.
StalePatch(b) ==
    /\ InLoop(b)
    /\ calls' = calls \o <<InferCall(b), PatchCall(b, TRUE)>>
    /\ \E i \in 1..Len(tasks) :
          tasks[i].gid = CurTask(b).gid /\ tasks[i].notes # CurTask(b).notes

\* C17: under any interleaving of two enrichment batches running at the same
\* time, no patch of one batch overwrites notes the other has written since
\* the fetch, and no task is patched with a generated description block more
\* than once.
C17_NoOverwriteNoSecondBlock ==
    [][/\ \A b \in Batches : ~StalePatch(b)
       /\ \A i \in 1..Len(tasks) : Cardinality(PatchesOf(tasks[i].gid)') <= 1]_vars

\* ------------------------------------------------- the chat 'enrich' command
\* Longest task list of the runs of the chat command.
MaxChatTasks == 2

\* The batch of the worker thread.
WorkerBatch == "b2"

Channels == {"C1", "C2"}

\* The text after 'enrich': nothing, a number, a word.
Contents == {<<>>, <<"0">>, <<"1">>, <<"x">>}

\* str.isdigit(): not empty and all digits.
IsDigits(s) == s # <<>> /\ \A i \in 1..Len(s) : IsDigit(s[i])

DigitValue(c) ==
    CASE c = "0" -> 0 [] c = "1" -> 1 [] c = "2" -> 2 [] c = "3" -> 3
      [] c = "4" -> 4 [] c = "5" -> 5 [] c = "6" -> 6 [] c = "7" -> 7
      [] c = "8" -> 8 [] c = "9" -> 9

\* int(s) of a string of digits
RECURSIVE IntOf(_)
IntOf(s) ==
    IF s = <<>> THEN 0
    ELSE 10 * IntOf(SubSeq(s, 1, Len(s) - 1)) + DigitValue(s[Len(s)])

\* limit = None; if content.isdigit(): limit = int(content)
CommandLimit(content) == IF IsDigits(content) THEN Some(IntOf(content)) ELSE NoneVal

\* app.client.chat_postMessage(channel=command['channel_id'], text=...)
PostCall(text, ok) == [channel |-> cmdChannel, text |-> text, ok |-> ok]

\* The messages the chat service has accepted.
Posted == SelectSeq(postCalls, LAMBDA c : c.ok)

\* '/assistant enrich <content>' arrives and say("Starting task enrichment
\* process ...") succeeds.
CmdEnrich(content, channel) ==
    /\ cmdPc = "idle"
    /\ cmdContent' = content
    /\ cmdChannel' = channel
    /\ cmdPc' = "said"
    /\ UNCHANGED <<wPc, postCalls, trackerVars, notWorker>>

\* say raises: the handler's except reports "Error starting enrichment" and
\* the handler returns; no thread is started.
CmdSayFails(content, channel) ==
    /\ cmdPc = "idle"
    /\ cmdContent' = content
    /\ cmdChannel' = channel
    /\ cmdPc' = "returned"
    /\ UNCHANGED <<wPc, postCalls, trackerVars, notWorker>>

\* thread = threading.Thread(target=run_enrichment); thread.start()
CmdStartThread ==
    /\ cmdPc = "said"
    /\ cmdPc' = "started"
    /\ wPc' = "enrich"
    /\ UNCHANGED <<cmdContent, cmdChannel, postCalls, trackerVars, notWorker>>

\* The handler returns: nothing follows thread.start().
CmdReturn ==
    /\ cmdPc = "started"
    /\ cmdPc' = "returned"
    /\ UNCHANGED <<cmdContent, cmdChannel, wPc, postCalls, trackerVars, notWorker>>

\* run_enrichment: assistant.enrich_task_descriptions(limit), a step of it.
WorkerEnrich ==
    /\ wPc = "enrich"
    /\ EnrichStep(WorkerBatch)
    /\ ePc[WorkerBatch] = "idle" => eLimit'[WorkerBatch] = CommandLimit(cmdContent)

\* enrich_task_descriptions has returned (it raises nothing).
WorkerEnriched ==
    /\ wPc = "enrich"
    /\ ePc[WorkerBatch] = "done"
    /\ wPc' = "post"
    /\ UNCHANGED <<cmdPc, cmdContent, cmdChannel, postCalls, trackerVars, notWorker>>

\* A bug: the completion message is posted when the thread starts, before
\* the batch.
M_WorkerPostCompleted(ok) ==
    /\ wPc = "enrich"
    /\ ePc[WorkerBatch] = "idle"
    /\ postCalls = <<>>
    /\ postCalls' = Append(postCalls, PostCall("completed", ok))
    /\ UNCHANGED <<cmdPc, cmdContent, cmdChannel, wPc, trackerVars, notWorker>>

\* chat_postMessage("Task enrichment completed!"): accepted, or it raises and
\* the except clause of run_enrichment is entered.
WorkerPostCompleted(ok) ==
    /\ wPc = "post"
    /\ postCalls' = Append(postCalls, PostCall("completed", ok))
    /\ wPc' = IF ok THEN "ended" ELSE "except"
    /\ UNCHANGED <<cmdPc, cmdContent, cmdChannel, trackerVars, notWorker>>

\* except: chat_postMessage("Error during task enrichment"): accepted, or it
\* raises and the exception ends the thread.
WorkerPostError(ok) ==
    /\ wPc = "except"
    /\ postCalls' = Append(postCalls, PostCall("error", ok))
    /\ wPc' = IF ok THEN "ended" ELSE "died"
    /\ UNCHANGED <<cmdPc, cmdContent, cmdChannel, trackerVars, notWorker>>

\* The projects of the runs of the chat command: at most MaxChatTasks
\* incomplete tasks, each with notes that are None, empty, or long and marked.
ChatNotes == {NoneNotes, Notes(0, FALSE), Notes(SkipThreshold + 1, TRUE)}
ChatProjects ==
    UNION {{[i \in 1..n |-> Task(i, <<"x">>, FALSE, k[i], NoneVal, NoneVal)] :
            k \in [1..n -> ChatNotes]} :
           n \in 0..MaxChatTasks}

InitChatEnrich ==
    /\ tasks \in ChatProjects
    /\ calls = <<>>
    /\ EnrichIdle
    /\ AskIdle
    /\ BulkIdle
    /\ QueryIdle
    /\ ParseIdle
    /\ ChatIdle
    /\ StartIdle
    /\ WorkerIdle
    /\ ServiceIdle

\* The steps of the worker thread.
WorkerNext ==
    \/ WorkerEnrich
    \/ WorkerEnriched
    \/ \E ok \in BOOLEAN : WorkerPostCompleted(ok)
    \/ \E ok \in BOOLEAN : WorkerPostError(ok)

NextChatEnrich ==
    \/ \E content \in Contents, channel \in Channels :
          CmdEnrich(content, channel) \/ CmdSayFails(content, channel)
    \/ CmdStartThread
    \/ CmdReturn
    \/ WorkerNext

\* The thread is not a daemon and is scheduled until it ends; the calls it
\* makes return.
SpecChatEnrich ==
    InitChatEnrich /\ [][NextChatEnrich]_vars /\ WF_vars(WorkerNext)

\* The worker's batch has run to completion: the function has returned and,
\* when its fetch succeeded, every selected task has been visited.
BatchCompleted ==
    /\ ePc[WorkerBatch] = "done"
    /\ eFetched[WorkerBatch] => Len(eTrace[WorkerBatch]) = Len(eTodo[WorkerBatch])

\* What holds of the chat 'enrich' command in every state: the handler can
\* return as soon as the thread is started; the thread posts only after the
\* batch, to the channel of the command, and at most one post is accepted.
WorkerSafety ==
    /\ cmdPc = "started" => ENABLED CmdReturn
    /\ wPc \in {"post", "except", "ended", "died"} => BatchCompleted
    /\ postCalls # <<>> => BatchCompleted
    /\ \A i \in 1..Len(postCalls) : postCalls[i].channel = cmdChannel
    /\ Len(Posted) <= 1

C15_WitnessNoWait ==
    /\ cmdPc = "returned"
    /\ wPc = "enrich"
    /\ ePc[WorkerBatch] = "loop"
    /\ postCalls = <<>>

MaxLines == 4

\* asyncio.run(process_asana_tasks(limit=3))
RunLimit == 3

\* What the operator types at the menu's prompt.
CommandLines ==
    {<<"run">>, <<"ask">>, <<"enrich">>, <<"quit">>, <<"enrich", " ">>, <<"x">>}
\* Answers to "How many tasks to enrich? (Enter for all): ".
LimitLines == {<<>>, <<"1">>}
\* Answers to "Select AI model:".
ModelLines == {<<>>, <<"2">>}
\* Answers to "What would you like to ask? (type 'exit' to quit)".
QuestionLines == {<<"q">>, <<"exit">>}

\* The two readers of standard input.
CommandThread == "process_commands"
MainLoop == "main"

\* if question.lower() in ['exit', 'quit', 'bye']
ExitWords == {<<"exit">>, <<"quit">>, <<"bye">>}

Line(text, reader) == [text |-> text, reader |-> reader]
MainCall(op, limit, text) == [op |-> op, limit |-> limit, text |-> text]

\* input(...) of the thread `by`: the oldest unread line of standard input.
ReadLine(by) ==
    /\ stdin # <<>>
    /\ stdin' = Tail(stdin)
    /\ consumed' = Append(consumed, [text |-> Head(stdin).text,
                                     meant |-> Head(stdin).reader,
                                     by |-> by])

\* The prompts the main loop opens while it runs a command.
NestedPrompts == {"limit_input", "model_input", "question_input"}
AnswersTo(pc) ==
    CASE pc = "limit_input" -> LimitLines
      [] pc = "model_input" -> ModelLines
      [] pc = "question_input" -> QuestionLines

\* The operator types a command: the menu's prompt is the only one open, and
\* every earlier command has been carried out.
TypeCommand(text) ==
    /\ Len(consumed) + Len(stdin) < MaxLines
    /\ mainPc = "get" /\ command_queue = <<>>
    /\ pollPc = "input" /\ stdin = <<>>
    /\ stdin' = Append(stdin, Line(text, CommandThread))
    /\ typed' = Append(typed, Lower(Strip(text)))
    /\ UNCHANGED <<pollPc, cmd, command_queue, mainPc, executed, consumed,
                   mainCalls, trackerVars, notService>>

\* The operator answers the prompt a running command has opened.
TypeAnswer(text) ==
    /\ Len(consumed) + Len(stdin) < MaxLines
    /\ mainPc \in NestedPrompts /\ text \in AnswersTo(mainPc)
    /\ stdin = <<>>
    /\ stdin' = Append(stdin, Line(text, MainLoop))
    /\ UNCHANGED <<typed, pollPc, cmd, command_queue, mainPc, executed,
                   consumed, mainCalls, trackerVars, notService>>

\* process_commands: cmd = input("> ").strip().lower()   (line 841)
\* The thread is a daemon: it ends with the main loop.
PollInput ==
    /\ pollPc = "input" /\ mainPc # "stopped"
    /\ ReadLine(CommandThread)
    /\ cmd' = <<Line(Lower(Strip(Head(stdin).text)), Head(stdin).reader)>>
    /\ pollPc' = "put"
    /\ UNCHANGED <<typed, command_queue, mainPc, executed, mainCalls,
                   trackerVars, notService>>

\* process_commands: command_queue.put(cmd); time.sleep(0.1)   (lines 842-845)
PollPut ==
    /\ pollPc = "put" /\ mainPc # "stopped"
    /\ command_queue' = Append(command_queue, cmd[1])
    /\ cmd' = <<>>
    /\ pollPc' = "input"
    /\ UNCHANGED <<stdin, typed, mainPc, executed, consumed, mainCalls,
                   trackerVars, notService>>

\* main loop: cmd = command_queue.get(timeout=1.0), for a command `c`
MainGet(c) ==
    /\ mainPc = "get" /\ command_queue # <<>>
    /\ Head(command_queue).text = c
    /\ command_queue' = Tail(command_queue)
    /\ executed' = Append(executed, Head(command_queue))
    /\ UNCHANGED <<stdin, typed, pollPc, cmd, consumed, trackerVars,
                   notService>>

\* if cmd == "run": asyncio.run(process_asana_tasks(limit=3))
MainRun ==
    /\ MainGet(<<"run">>)
    /\ mainCalls' = Append(mainCalls,
                           MainCall("process_tasks", Some(RunLimit), <<>>))
    /\ mainPc' = "get"

\* elif cmd == "ask": asyncio.run(interactive_session())
MainAsk ==
    /\ MainGet(<<"ask">>)
    /\ mainPc' = "model_input"
    /\ UNCHANGED mainCalls

\* elif cmd == "enrich": ... input("How many tasks to enrich? ...")
MainEnrich ==
    /\ MainGet(<<"enrich">>)
    /\ mainPc' = "limit_input"
    /\ UNCHANGED mainCalls

\* elif cmd == "quit": break
MainQuit ==
    /\ MainGet(<<"quit">>)
    /\ mainPc' = "stopped"
    /\ UNCHANGED mainCalls

\* else: print(f"Unknown command: {cmd}")
MainUnknown ==
    /\ command_queue # <<>>
    /\ \E c \in {Head(command_queue).text} \ {<<"run">>, <<"ask">>,
                                             <<"enrich">>, <<"quit">>} :
           MainGet(c)
    /\ mainPc' = "get"
    /\ UNCHANGED mainCalls

\* limit_input = input("How many tasks to enrich? (Enter for all): ").strip()
\* limit = int(limit_input) if limit_input.isdigit() else None
\* assistant.enrich_task_descriptions(limit)                (lines 889-892)
MainLimitInput ==
    /\ mainPc = "limit_input"
    /\ ReadLine(MainLoop)
    /\ mainCalls' = Append(mainCalls,
           MainCall("enrich_task_descriptions",
                    CommandLimit(Strip(Head(stdin).text)), <<>>))
    /\ mainPc' = "get"
    /\ UNCHANGED <<typed, pollPc, cmd, command_queue, executed, trackerVars,
                   notService>>

\* model_choice = input("> ").strip(); AIAssistant(model=model)  (765-771)
MainModelInput ==
    /\ mainPc = "model_input"
    /\ ReadLine(MainLoop)
    /\ mainCalls' = Append(mainCalls,
           MainCall("AIAssistant", NoneVal,
                    IF Strip(Head(stdin).text) = <<"2">> THEN <<"gpt-4">>
                    ELSE <<"gpt-3.5-turbo">>))
    /\ mainPc' = "question_input"
    /\ UNCHANGED <<typed, pollPc, cmd, command_queue, executed, trackerVars,
                   notService>>

\* question = input("> "); exit words end the session, anything else is
\* passed to assistant.ask_question(question)               (lines 775-780)
MainQuestionInput ==
    /\ mainPc = "question_input"
    /\ ReadLine(MainLoop)
    /\ IF Lower(Head(stdin).text) \in ExitWords
       THEN mainPc' = "get" /\ UNCHANGED mainCalls
       ELSE /\ mainPc' = "question_input"
            /\ mainCalls' = Append(mainCalls,
                   MainCall("ask_question", NoneVal, Head(stdin).text))
    /\ UNCHANGED <<typed, pollPc, cmd, command_queue, executed, trackerVars,
                   notService>>

InitService ==
    /\ tasks = <<>>
    /\ calls = <<>>
    /\ ServiceIdle
    /\ EnrichIdle
    /\ AskIdle
    /\ BulkIdle
    /\ QueryIdle
    /\ ParseIdle
    /\ ChatIdle
    /\ StartIdle
    /\ WorkerIdle

NextService ==
    \/ \E text \in CommandLines : TypeCommand(text)
    \/ \E text \in LimitLines \cup ModelLines \cup QuestionLines :
           TypeAnswer(text)
    \/ PollInput
    \/ PollPut
    \/ MainRun
    \/ MainAsk
    \/ MainEnrich
    \/ MainQuit
    \/ MainUnknown
    \/ MainLimitInput
    \/ MainModelInput
    \/ MainQuestionInput

SpecService == InitService /\ [][NextService]_vars

\* The texts of the commands the main loop has dispatched.
ExecutedTexts == [i \in DOMAIN executed |-> executed[i].text]

\* C19: in service mode every line typed on standard input is read by the
\* reader it was meant for: the main loop carries out the operator's commands
\* in the order they were typed, nothing after 'quit', and an answer to a
\* nested prompt of 'enrich' or 'ask' is never read by the command thread and
\* queued as a command.
C19_LinesReachTheirReader ==
    /\ \A i \in DOMAIN consumed : consumed[i].by = consumed[i].meant
    /\ cmd # <<>> => cmd[1].reader = CommandThread
    /\ \A i \in DOMAIN command_queue :
           command_queue[i].reader = CommandThread
    /\ ExecutedTexts = Prefix(typed, Len(executed))
    /\ \A i \in DOMAIN executed :
           executed[i].text = <<"quit">> => i = Len(executed)

====
